---------------------------- MODULE Spec2Model ----------------------------
(***************************************************************************)
(* A model of the core of latticecli (package claude_clone): the           *)
(* permission engine (core/permission.py), the Run, Task and Approval      *)
(* entities (domain/entities), the event log (EventBus, the in-memory      *)
(* event repository, GetTimelineUseCase) and the file checkpoints          *)
(* (backends/file_checkpoint.py).                                          *)
(*                                                                         *)
(* Text is modelled as a sequence of one-character strings, so that the    *)
(* rule parser, strip, startswith, str.replace, the ** -> regex            *)
(* translation and fnmatch are computed character by character, as the     *)
(* code computes them.  An Optional value is <<>> (None) or <<v>>.         *)
(***************************************************************************)
EXTENDS Naturals, Sequences, FiniteSets, TLC

VARIABLES
    ctor,       \* the arguments PermissionManager.__init__ was called with
    manager,    \* the PermissionManager: mode, _allow_rules, _deny_rules
    call,       \* the last call on the manager and what it returned or raised
    permission_rule, \* a PermissionRule used on its own
    rule_call,  \* the last call of rule.matches and what it returned or raised
    run,        \* the Run entity: status, created_at, updated_at
    now,        \* the clock datetime.utcnow() reads
    run_call,   \* the last call on the Run and what it returned or raised
    task,       \* the Task entity: status, owner_worker_id, error_message,
                \* output_refs, created_at, updated_at
    task_call,  \* the last call on the Task and what it raised
    approval,   \* the Approval entity
    approval_call,    \* the last call on the Approval, its time, what it raised
    event_repository, \* the InMemoryEventRepository: _events, _next_id
    run_repository,   \* the ids of the runs the InMemoryRunRepository holds
    log_call,   \* the last call on the bus, the event repository or the
                \* timeline use case, and its result
    fs,         \* the file system: the directory /w/d, the files under it
    checkpoint_manager, \* the FileCheckpointManager: _tracked_files, _turn
    storage_dir,      \* the checkpoints stored as <id>.json in storage_dir
    uuid4,      \* how many ids uuid.uuid4() has issued
    origin,     \* history: the bytes each path held when it was tracked
    checkpoint_call,  \* the last call on the checkpoint manager or the file
                      \* system, and its result
    approval_repository, \* the InMemoryApprovalRepository: _approvals
    resolve_call,     \* the last call on the stored approvals, as it went
    agent,      \* the compiled agent graph: its tools, the node it is at, the
                \* tool calls of the last message, the calls of the model
    executed,   \* history: the tool calls the tool node has run
    publishers, \* the callers running EventBus.publish at once: where
                \* each one is, and its locals
    resolvers, \* the callers running ResolveApprovalUseCase.execute at once
    thin_state,  \* the ThinState: its approvals (pending_ids, pending_count, focus_approval_id)
    thin_call, \* the last call on the ThinState and the approvals before it
    bus,  \* the EventBus: _handlers (by event type) and _global_handlers
    stack,      \* the publish calls under way, innermost last: the event,
                \* the loop _notify is in, its place, the handler running
    delivered,  \* history: the handler calls made, in order: handler and event id
    publications,\* history: the events published, each with the handlers
                \* subscribed when publish was called
    reader      \* a reader of the timeline of run-1: its cursor, the ids of
                \* the events it has received, in order, its last response

permVars == <<ctor, manager, call>>
ruleVars == <<permission_rule, rule_call>>
runVars == <<run, now, run_call>>
taskVars == <<task, task_call>>
approvalVars == <<approval, approval_call>>
eventVars == <<event_repository, run_repository, log_call>>
checkpointVars ==
    <<fs, checkpoint_manager, storage_dir, uuid4, origin, checkpoint_call>>
resolveVars == <<approval_repository, resolve_call>>
agentVars == <<agent, executed>>
threadVars == <<publishers>>
resolverVars == <<resolvers>>
thinVars == <<thin_state, thin_call>>
busVars == <<bus, stack, delivered, publications>>
readerVars == <<reader>>
vars == <<ctor, manager, call, permission_rule, rule_call, run, now, run_call,
         task, task_call,
         approval, approval_call,
         event_repository, run_repository, log_call,
         fs, checkpoint_manager, storage_dir, uuid4, origin, checkpoint_call,
         approval_repository, resolve_call, agent, executed,
         publishers,
         resolvers,
         thin_state, thin_call,
         bus, stack, delivered, publications,
         reader>>

(***************************************************************************)
(* Text helpers: Python's str operations on sequences of characters.       *)
(***************************************************************************)
None == <<>>
Some(v) == <<v>>

\* The characters \w matches among those the model's texts are made of.
WordChars ==
    {"a","b","c","d","e","f","g","h","i","j","k","l","m","n","o","p","q","r",
     "s","t","u","v","w","x","y","z","B","E","G","R","T","W","_"}

\* str.strip(): leading and trailing whitespace removed.
RECURSIVE strip(_)
strip(s) ==
    IF s = <<>> THEN s
    ELSE IF Head(s) = " " THEN strip(Tail(s))
    ELSE IF s[Len(s)] = " " THEN strip(SubSeq(s, 1, Len(s) - 1))
    ELSE s

\* str.startswith(prefix)
startswith(value, prefix) ==
    /\ Len(prefix) <= Len(value)
    /\ SubSeq(value, 1, Len(prefix)) = prefix

\* `sub in s` for a non-empty text sub
contains(s, sub) ==
    \E i \in 1..Len(s) : startswith(SubSeq(s, i, Len(s)), sub)

\* str.replace(old, new): every non-overlapping occurrence, leftmost first.
RECURSIVE replace(_, _, _)
replace(s, old, new) ==
    IF s = <<>> THEN <<>>
    ELSE IF startswith(s, old)
         THEN new \o replace(SubSeq(s, Len(old) + 1, Len(s)), old, new)
         ELSE <<Head(s)>> \o replace(Tail(s), old, new)

(***************************************************************************)
(* PermissionRule                                                          *)
(***************************************************************************)
\* The length of the longest prefix of s made of \w characters.
RECURSIVE WordPrefixLen(_)
WordPrefixLen(s) ==
    IF s # <<>> /\ Head(s) \in WordChars THEN 1 + WordPrefixLen(Tail(s)) ELSE 0

\* re.match(r"^(\w+)(?:\((.+)\))?$", s): None, or Some(<<group 1, group 2>>)
\* with group 2 an Optional.  "(" is no \w character, so group 1 is the
\* longest \w prefix; group 2 is what lies between the "(" that follows it
\* and a final ")", and must not be empty.
RuleRegexMatch(s) ==
    LET n == WordPrefixLen(s) IN
    IF n = 0 THEN None
    ELSE IF n = Len(s) THEN Some(<<SubSeq(s, 1, n), None>>)
    ELSE IF s[n + 1] = "(" /\ s[Len(s)] = ")" /\ Len(s) >= n + 3
         THEN Some(<<SubSeq(s, 1, n), Some(SubSeq(s, n + 2, Len(s) - 1))>>)
         ELSE None

\* PermissionRule.parse
parse(rule) ==
    LET match == RuleRegexMatch(strip(rule)) IN
    IF match = None
    THEN [tool_name |-> strip(rule), pattern |-> None]
    ELSE [tool_name |-> match[1][1], pattern |-> match[1][2]]


\* The dict {}
EmptyArgs == [key \in {} |-> <<>>]

\* dict.get(key): None when the key is absent
get(args, key) == IF key \in DOMAIN args THEN Some(args[key]) ELSE None

\* Python's `a or b` on Optional texts: None and "" are falsy
or(a, b) == IF a = None \/ a = Some(<<>>) THEN b ELSE a

\* The tool names the code spells out.
Read == <<"R","e","a","d">>
Edit == <<"E","d","i","t">>
Write == <<"W","r","i","t","e">>
Bash == <<"B","a","s","h">>
Grep == <<"G","r","e","p">>
Glob == <<"G","l","o","b">>
read_tool == <<"r","e","a","d","_","t","o","o","l">>
edit_tool == <<"e","d","i","t","_","t","o","o","l">>
write_tool == <<"w","r","i","t","e","_","t","o","o","l">>
bash_tool == <<"b","a","s","h","_","t","o","o","l">>
grep_tool == <<"g","r","e","p","_","t","o","o","l">>
glob_tool == <<"g","l","o","b","_","t","o","o","l">>

\* PermissionRule._get_match_value
_get_match_value(tool_name, args) ==
    IF tool_name \in {Read, Edit, Write, read_tool, edit_tool, write_tool}
    THEN get(args, "file_path")
    ELSE IF tool_name \in {Bash, bash_tool}
    THEN get(args, "command")
    ELSE IF tool_name \in {Grep, grep_tool}
    THEN or(get(args, "path"), get(args, "pattern"))
    ELSE IF tool_name \in {Glob, glob_tool}
    THEN or(get(args, "path"), get(args, "pattern"))
    ELSE or(or(get(args, "file_path"), get(args, "path")), get(args, "command"))

\* The regular expression the ** branch builds, as a sequence of regex
\* tokens: a placeholder stands for itself until the last three passes put
\* the fragments "(?:.*/)?", ".*" and "[^/]*" in its place; "." becomes the
\* token "\\."; every other character of the pattern is copied as it is.
regex_pattern(pattern) ==
    LET DOUBLE_STAR_SLASH == "<0>DS<0>"
        DOUBLE_STAR == "<1>DS<1>"
        SINGLE_STAR == "<2>SS<2>"
        p1 == replace(pattern, <<"*","*","/">>, <<DOUBLE_STAR_SLASH>>)
        p2 == replace(p1, <<"*","*">>, <<DOUBLE_STAR>>)
        p3 == replace(p2, <<"*">>, <<SINGLE_STAR>>)
        p4 == replace(p3, <<".">>, <<"\\.">>)
        p5 == replace(p4, <<DOUBLE_STAR_SLASH>>, <<"(?:.*/)?">>)
        p6 == replace(p5, <<DOUBLE_STAR>>, <<".*">>)
        p7 == replace(p6, <<SINGLE_STAR>>, <<"[^/]*">>)
    IN  <<"^">> \o p7 \o <<"$">>

\* re.compile fails ("missing ), unterminated subpattern" or "unbalanced
\* parenthesis") unless the parentheses copied from the pattern pair.
RECURSIVE ParensPair(_, _)
ParensPair(regex, depth) ==
    IF regex = <<>> THEN depth = 0
    ELSE IF Head(regex) = "(" THEN ParensPair(Tail(regex), depth + 1)
    ELSE IF Head(regex) = ")"
         THEN depth > 0 /\ ParensPair(Tail(regex), depth - 1)
    ELSE ParensPair(Tail(regex), depth)

\* Whether the regex (a token sequence) matches all of value.  A paired
\* parenthesis only groups; no token of the model's texts is a quantifier
\* of its own.
RECURSIVE regex_matches(_, _)
regex_matches(regex, value) ==
    LET rest(k) == SubSeq(value, k + 1, Len(value))
        t == Head(regex)
    IN
    IF regex = <<>> THEN value = <<>>
    ELSE IF t = "^" \/ t = "(" \/ t = ")" THEN regex_matches(Tail(regex), value)
    ELSE IF t = "$" THEN value = <<>> /\ regex_matches(Tail(regex), value)
    ELSE IF t = "(?:.*/)?"
         THEN \/ regex_matches(Tail(regex), value)
              \/ \E k \in 1..Len(value) :
                    value[k] = "/" /\ regex_matches(Tail(regex), rest(k))
    ELSE IF t = ".*"
         THEN \E k \in 0..Len(value) : regex_matches(Tail(regex), rest(k))
    ELSE IF t = "[^/]*"
         THEN \E k \in 0..Len(value) :
                /\ \A i \in 1..k : value[i] # "/"
                /\ regex_matches(Tail(regex), rest(k))
    ELSE /\ value # <<>>
         /\ Head(value) = (IF t = "\\." THEN "." ELSE t)
         /\ regex_matches(Tail(regex), Tail(value))

\* bool(re.match(regex_pattern, value)), or re.error raised by the compile
re_match(regex, value) ==
    IF ~ParensPair(regex, 0) THEN "re.error"
    ELSE IF regex_matches(regex, value) THEN "True" ELSE "False"

\* fnmatch.fnmatch(name, pat) where os.path.normcase changes nothing
\* (POSIX): "*" matches any text, "/" included, "?" any one character, every
\* other character itself; the whole name must match.
RECURSIVE fnmatch(_, _)
fnmatch(name, pat) ==
    IF pat = <<>> THEN name = <<>>
    ELSE IF Head(pat) = "*"
         THEN \E k \in 0..Len(name) :
                fnmatch(SubSeq(name, k + 1, Len(name)), Tail(pat))
    ELSE /\ name # <<>>
         /\ Head(pat) = "?" \/ Head(pat) = Head(name)
         /\ fnmatch(Tail(name), Tail(pat))

\* PermissionRule._pattern_matches: "True", "False", or "re.error" raised
_pattern_matches(pattern, value) ==
    IF contains(pattern, <<":","*">>)
    THEN LET prefix == replace(pattern, <<":","*">>, <<>>) IN
         IF startswith(value, prefix) THEN "True" ELSE "False"
    ELSE IF contains(pattern, <<"*","*">>)
    THEN re_match(regex_pattern(pattern), value)
    ELSE IF fnmatch(value, pattern) THEN "True" ELSE "False"

\* matches without the test `if match_value is None: return False`: a missing
\* argument is matched as the empty text.
matches_without_none_test(rule, tool_name, args) ==
    IF rule.tool_name # tool_name THEN "False"
    ELSE IF rule.pattern = None THEN "True"
    ELSE LET match_value == _get_match_value(tool_name, args) IN
         _pattern_matches(rule.pattern[1],
                          IF match_value = None THEN <<>> ELSE match_value[1])

\* PermissionRule.matches: "True", "False", or "re.error" raised
matches(rule, tool_name, args) ==
    IF rule.tool_name # tool_name THEN "False"
    ELSE IF rule.pattern = None THEN "True"
    ELSE LET match_value == _get_match_value(tool_name, args) IN
         IF match_value = None THEN "False"
         ELSE _pattern_matches(rule.pattern[1], match_value[1])

(***************************************************************************)
(* PermissionManager                                                       *)
(***************************************************************************)
SAFE_TOOLS == {Read, read_tool, Glob, glob_tool, Grep, grep_tool}
\* WRITE_TOOLS with the alias of Edit left out.
WRITE_TOOLS_without_edit_tool == {Edit, Write, write_tool}

WRITE_TOOLS == {Edit, edit_tool, Write, write_tool}
EXEC_TOOLS == {Bash, bash_tool}

\* The values of the enum PermissionMode.
PermissionMode == {"default", "plan", "accept_edits", "bypass"}

\* PermissionManager.__init__: a mode string that names no PermissionMode
\* falls back to DEFAULT; every rule string is parsed.
PermissionManager(mode, allow_rules, deny_rules) ==
    [mode |-> IF mode \in PermissionMode THEN mode ELSE "default",
     _allow_rules |-> [i \in 1..Len(allow_rules) |-> parse(allow_rules[i])],
     _deny_rules |-> [i \in 1..Len(deny_rules) |-> parse(deny_rules[i])]]

\* _check_by_mode without its bypass branch: bypass falls through to the
\* default mode's answer.
_check_by_mode_without_bypass(self, tool_name) ==
    IF self.mode = "plan"
    THEN IF tool_name \in SAFE_TOOLS THEN "allow" ELSE "ask"
    ELSE IF self.mode = "accept_edits"
    THEN IF tool_name \in SAFE_TOOLS \/ tool_name \in WRITE_TOOLS
         THEN "allow" ELSE "ask"
    ELSE IF tool_name \in SAFE_TOOLS THEN "allow" ELSE "ask"

\* _check_by_mode whose accept_edits branch tests SAFE_TOOLS alone.
_check_by_mode_edits_asked(self, tool_name) ==
    IF self.mode = "bypass" THEN "allow"
    ELSE IF tool_name \in SAFE_TOOLS THEN "allow" ELSE "ask"

\* PermissionManager._check_by_mode
_check_by_mode(self, tool_name) ==
    IF self.mode = "bypass" THEN "allow"
    ELSE IF self.mode = "plan"
    THEN IF tool_name \in SAFE_TOOLS THEN "allow" ELSE "ask"
    ELSE IF self.mode = "accept_edits"
    THEN IF tool_name \in SAFE_TOOLS \/ tool_name \in WRITE_TOOLS
         THEN "allow" ELSE "ask"
    ELSE IF tool_name \in SAFE_TOOLS THEN "allow" ELSE "ask"

\* `for rule in rules: if rule.matches(tool_name, args): return ...`:
\* "True" when the loop returns at a matching rule, "False" when it ends,
\* "re.error" when a rule reached before any matching one raises.
RECURSIVE first_match(_, _, _)
first_match(rules, tool_name, args) ==
    IF rules = <<>> THEN "False"
    ELSE LET m == matches(Head(rules), tool_name, args) IN
         IF m = "False" THEN first_match(Tail(rules), tool_name, args) ELSE m

\* PermissionManager.check: "allow", "deny", "ask", or "re.error" raised.
\* args is an Optional dict; `args or {}` makes None the empty dict.
check(self, tool_name, args) ==
    LET a == IF args = None THEN EmptyArgs ELSE args[1]
        denied == first_match(self._deny_rules, tool_name, a)
        allowed == first_match(self._allow_rules, tool_name, a)
    IN  IF denied = "re.error" THEN "re.error"
        ELSE IF denied = "True" THEN "deny"
        ELSE IF allowed = "re.error" THEN "re.error"
        ELSE IF allowed = "True" THEN "allow"
        ELSE _check_by_mode(self, tool_name)

\* PermissionManager.is_safe_tool / is_write_tool / is_exec_tool
is_safe_tool(tool_name) == tool_name \in SAFE_TOOLS
is_write_tool(tool_name) == tool_name \in WRITE_TOOLS
is_exec_tool(tool_name) == tool_name \in EXEC_TOOLS

(***************************************************************************)
(* The inputs of the permission engine.                                    *)
(***************************************************************************)
\* At most this many rules in the allow list and the deny list together.
MaxRules == 2

\* The sequences over S of length at most n
SeqUpTo(S, n) == UNION {[1..k -> S] : k \in 0..n}

\* Rule strings: a bare tool name, a ** pattern whose "(" makes re.compile
\* fail, a glob pattern, a string that is no rule (and is surrounded by
\* blanks), a prefix pattern and a ** pattern.
RuleStrings ==
    { <<"E","d","i","t">>,
      <<"E","d","i","t","(","*","*","(",")">>,
      <<"R","e","a","d","(",".","e","n","v","*",")">>,
      <<" ","R","e","a","d","(",")"," ">>,
      <<"B","a","s","h","(","n","p","m"," ","r","u","n",":","*",")">> ,
      <<"G","r","e","p","(","s","r","c","/","*","*",")">> }

\* Mode strings: the four modes and one that names none.
ModeStrings == PermissionMode \cup {"invalid_mode"}

\* Tool names: the declared ones, an unknown one, and one that is the text
\* of a rule string that is no rule.
Task == <<"T","a","s","k">>
ToolNames ==
    SAFE_TOOLS \cup WRITE_TOOLS \cup EXEC_TOOLS
        \cup {Task, <<"R","e","a","d","(",")">>}

\* Argument dicts (None: check called without args).
ArgsUniverse ==
    { None,
      Some([file_path |-> <<".","e","n","v">>]),
      Some([file_path |-> <<"a",".","p","y">>, command |-> <<"l","s">>]),
      Some([command |-> <<"n","p","m"," ","r","u","n"," ","t">>,
            path |-> <<"s","r","c","/","a">>]),
      Some([path |-> <<>>, pattern |-> <<"s","r","c","/">>]) }

(***************************************************************************)
(* The permission engine as a state machine: one manager, constructed      *)
(* from any mode string and rule lists, then called any number of times by *)
(* a synchronous caller: a call runs to completion and its result is taken *)
(* (Return) before the next call.                                          *)
(***************************************************************************)
NoCall == [op |-> "none", tool_name |-> <<>>, args |-> None, result |-> "none"]

BoolStr(b) == IF b THEN "True" ELSE "False"

Check(tool_name, args) ==
    /\ call = NoCall
    /\ call' = [op |-> "check", tool_name |-> tool_name, args |-> args,
                result |-> check(manager, tool_name, args)]
    /\ UNCHANGED <<ctor, manager, ruleVars, runVars, taskVars, approvalVars, eventVars, checkpointVars, resolveVars, agentVars, threadVars, resolverVars, thinVars, busVars, readerVars>>

IsSafeTool(tool_name) ==
    /\ call = NoCall
    /\ call' = [op |-> "is_safe_tool", tool_name |-> tool_name, args |-> None,
                result |-> BoolStr(is_safe_tool(tool_name))]
    /\ UNCHANGED <<ctor, manager, ruleVars, runVars, taskVars, approvalVars, eventVars, checkpointVars, resolveVars, agentVars, threadVars, resolverVars, thinVars, busVars, readerVars>>

IsWriteTool(tool_name) ==
    /\ call = NoCall
    /\ call' = [op |-> "is_write_tool", tool_name |-> tool_name, args |-> None,
                result |-> BoolStr(is_write_tool(tool_name))]
    /\ UNCHANGED <<ctor, manager, ruleVars, runVars, taskVars, approvalVars, eventVars, checkpointVars, resolveVars, agentVars, threadVars, resolverVars, thinVars, busVars, readerVars>>

IsExecTool(tool_name) ==
    /\ call = NoCall
    /\ call' = [op |-> "is_exec_tool", tool_name |-> tool_name, args |-> None,
                result |-> BoolStr(is_exec_tool(tool_name))]
    /\ UNCHANGED <<ctor, manager, ruleVars, runVars, taskVars, approvalVars, eventVars, checkpointVars, resolveVars, agentVars, threadVars, resolverVars, thinVars, busVars, readerVars>>

Return ==
    /\ call # NoCall
    /\ call' = NoCall
    /\ UNCHANGED <<ctor, manager, ruleVars, runVars, taskVars, approvalVars, eventVars, checkpointVars, resolveVars, agentVars, threadVars, resolverVars, thinVars, busVars, readerVars>>

(***************************************************************************)
(* A PermissionRule on its own: parsed from "Edit(<pattern>)" for any      *)
(* short pattern, then asked whether it matches Edit of any short path.    *)
(***************************************************************************)
MaxPatternLen == 3
MaxValueLen == 3

\* The characters patterns and paths are made of here.
PatternChars == {"a", "/", ".", "*", ":", "("}
ValueChars == {"a", "/", ".", "("}

NoRuleCall == [tool_name |-> <<>>, args |-> EmptyArgs, result |-> "none"]

Matches(tool_name, args) ==
    /\ rule_call = NoRuleCall
    /\ rule_call' = [tool_name |-> tool_name, args |-> args,
                     result |-> matches(permission_rule, tool_name, args)]
    /\ UNCHANGED <<permission_rule, permVars, runVars, taskVars, approvalVars, eventVars, checkpointVars, resolveVars, agentVars, threadVars, resolverVars, thinVars, busVars, readerVars>>

MatchesReturn ==
    /\ rule_call # NoRuleCall
    /\ rule_call' = NoRuleCall
    /\ UNCHANGED <<permission_rule, permVars, runVars, taskVars, approvalVars, eventVars, checkpointVars, resolveVars, agentVars, threadVars, resolverVars, thinVars, busVars, readerVars>>

(***************************************************************************)
(* Run                                                                     *)
(***************************************************************************)
MaxTime == 3

RunStatus == {"pending", "running", "completed", "failed", "cancelled"}

\* The table as the class docstring words it: cancel from RUNNING only.
_VALID_TRANSITIONS_cancel_from_running ==
    [s \in RunStatus |->
        CASE s = "pending" -> {"running"}
          [] s = "running" -> {"completed", "failed", "cancelled"}
          [] OTHER -> {}]

\* A table in which a failed Run can be started again.
_VALID_TRANSITIONS_restart_from_failed ==
    [s \in RunStatus |->
        CASE s = "pending" -> {"running", "cancelled"}
          [] s = "running" -> {"completed", "failed", "cancelled"}
          [] s = "failed" -> {"running"}
          [] OTHER -> {}]

_VALID_TRANSITIONS ==
    [s \in RunStatus |->
        CASE s = "pending" -> {"running", "cancelled"}
          [] s = "running" -> {"completed", "failed", "cancelled"}
          [] OTHER -> {}]

\* Run._can_transition_to
_can_transition_to(self, new_status) ==
    new_status \in _VALID_TRANSITIONS[self.status]

\* Run._transition_to: the Run afterwards and what was raised; the message
\* of InvalidStateError is the four parts of the f-string.
_transition_to(self, new_status, utcnow) ==
    IF ~_can_transition_to(self, new_status)
    THEN [self |-> self,
          raised |-> Some(<<"InvalidStateError", "Cannot transition from ",
                            self.status, " to ", new_status>>)]
    ELSE [self |-> [self EXCEPT !.status = new_status, !.updated_at = utcnow],
          raised |-> None]

\* Run.is_terminal / Run.is_active
is_terminal(self) == self.status \in {"completed", "failed", "cancelled"}
is_active(self) == self.status \in {"pending", "running"}

\* Run.create at time utcnow: status PENDING, both timestamps from the clock
create(utcnow) ==
    [status |-> "pending", created_at |-> utcnow, updated_at |-> utcnow]

\* Run.start, complete, fail and cancel: Run._transition_to, reading the
\* clock; the call record keeps the Run as it was when the call was made.
start ==
    LET r == _transition_to(run, "running", now) IN
    /\ run' = r.self
    /\ run_call' = [op |-> "start", before |-> run, raised |-> r.raised]
    /\ UNCHANGED <<now, permVars, ruleVars, taskVars, approvalVars, eventVars, checkpointVars, resolveVars, agentVars, threadVars, resolverVars, thinVars, busVars, readerVars>>

complete ==
    LET r == _transition_to(run, "completed", now) IN
    /\ run' = r.self
    /\ run_call' = [op |-> "complete", before |-> run, raised |-> r.raised]
    /\ UNCHANGED <<now, permVars, ruleVars, taskVars, approvalVars, eventVars, checkpointVars, resolveVars, agentVars, threadVars, resolverVars, thinVars, busVars, readerVars>>

fail ==
    LET r == _transition_to(run, "failed", now) IN
    /\ run' = r.self
    /\ run_call' = [op |-> "fail", before |-> run, raised |-> r.raised]
    /\ UNCHANGED <<now, permVars, ruleVars, taskVars, approvalVars, eventVars, checkpointVars, resolveVars, agentVars, threadVars, resolverVars, thinVars, busVars, readerVars>>

cancel ==
    LET r == _transition_to(run, "cancelled", now) IN
    /\ run' = r.self
    /\ run_call' = [op |-> "cancel", before |-> run, raised |-> r.raised]
    /\ UNCHANGED <<now, permVars, ruleVars, taskVars, approvalVars, eventVars, checkpointVars, resolveVars, agentVars, threadVars, resolverVars, thinVars, busVars, readerVars>>

\* Time passes between calls.
Tick ==
    /\ now < MaxTime
    /\ now' = now + 1
    /\ UNCHANGED <<run, run_call, permVars, ruleVars, taskVars, approvalVars, eventVars, checkpointVars, resolveVars, agentVars, threadVars, resolverVars, thinVars, busVars, readerVars>>

(***************************************************************************)
(* The Task lifecycle (domain/entities/task.py).                           *)
(***************************************************************************)
TaskStatus == {"pending", "in_progress", "completed", "failed", "blocked"}

\* The arguments the calls on a Task are made with.
WorkerIds == {"worker-1", "worker-2"}
Reasons == {"", "needs approval"}
OutputRefs == {None, Some(<<>>), Some(<<"out-1">>)}
ErrorMessages == {"boom"}

\* Task.create at time utcnow
Task_create(utcnow) ==
    [status |-> "pending", owner_worker_id |-> None, error_message |-> None,
     output_refs |-> <<>>, created_at |-> utcnow, updated_at |-> utcnow]

\* What each method of Task raises when the status is not the one it needs.
Task_InvalidStateError(verb, self) ==
    Some(<<"InvalidStateError", "Cannot ", verb, " task in ", self.status,
           " status">>)

\* Task.complete guarded as if a blocked task could be completed too.
Task_complete_also_from_blocked(output_refs) ==
    /\ task_call' = [op |-> "complete", before |-> task,
                     raised |-> IF task.status \notin {"in_progress", "blocked"}
                                THEN Task_InvalidStateError("complete", task)
                                ELSE None]
    /\ task' = IF task.status \notin {"in_progress", "blocked"} THEN task
               ELSE [task EXCEPT
                        !.status = "completed",
                        !.output_refs =
                            IF output_refs # None /\ output_refs[1] # <<>>
                            THEN @ \o output_refs[1] ELSE @,
                        !.updated_at = now]
    /\ UNCHANGED <<permVars, ruleVars, runVars, approvalVars, eventVars, checkpointVars, resolveVars, agentVars, threadVars, resolverVars, thinVars, busVars, readerVars>>

\* Task.assign
Task_assign(worker_id) ==
    /\ task_call' = [op |-> "assign", before |-> task,
                     raised |-> IF task.status # "pending"
                                THEN Task_InvalidStateError("assign", task)
                                ELSE None]
    /\ task' = IF task.status # "pending" THEN task
               ELSE [task EXCEPT !.owner_worker_id = Some(worker_id),
                                 !.status = "in_progress",
                                 !.updated_at = now]
    /\ UNCHANGED <<permVars, ruleVars, runVars, approvalVars, eventVars, checkpointVars, resolveVars, agentVars, threadVars, resolverVars, thinVars, busVars, readerVars>>

\* Task.block: a non-empty reason becomes the error message.
Task_block(reason) ==
    /\ task_call' = [op |-> "block", before |-> task,
                     raised |-> IF task.status # "in_progress"
                                THEN Task_InvalidStateError("block", task)
                                ELSE None]
    /\ task' = IF task.status # "in_progress" THEN task
               ELSE [task EXCEPT !.status = "blocked",
                                 !.error_message =
                                     IF reason # "" THEN Some(reason) ELSE @,
                                 !.updated_at = now]
    /\ UNCHANGED <<permVars, ruleVars, runVars, approvalVars, eventVars, checkpointVars, resolveVars, agentVars, threadVars, resolverVars, thinVars, busVars, readerVars>>

\* A Task.unblock that leaves the block reason in error_message
Task_unblock_keeping_message ==
    /\ task_call' = [op |-> "unblock", before |-> task,
                     raised |-> IF task.status # "blocked"
                                THEN Task_InvalidStateError("unblock", task)
                                ELSE None]
    /\ task' = IF task.status # "blocked" THEN task
               ELSE [task EXCEPT !.status = "in_progress",
                                 !.updated_at = now]
    /\ UNCHANGED <<permVars, ruleVars, runVars, approvalVars, eventVars, checkpointVars, resolveVars, agentVars, threadVars, resolverVars, thinVars, busVars, readerVars>>

\* Task.unblock
Task_unblock ==
    /\ task_call' = [op |-> "unblock", before |-> task,
                     raised |-> IF task.status # "blocked"
                                THEN Task_InvalidStateError("unblock", task)
                                ELSE None]
    /\ task' = IF task.status # "blocked" THEN task
               ELSE [task EXCEPT !.status = "in_progress",
                                 !.error_message = None,
                                 !.updated_at = now]
    /\ UNCHANGED <<permVars, ruleVars, runVars, approvalVars, eventVars, checkpointVars, resolveVars, agentVars, threadVars, resolverVars, thinVars, busVars, readerVars>>

\* Task.complete: a non-empty list of output refs is appended.
Task_complete(output_refs) ==
    /\ task_call' = [op |-> "complete", before |-> task,
                     raised |-> IF task.status # "in_progress"
                                THEN Task_InvalidStateError("complete", task)
                                ELSE None]
    /\ task' = IF task.status # "in_progress" THEN task
               ELSE [task EXCEPT
                        !.status = "completed",
                        !.output_refs =
                            IF output_refs # None /\ output_refs[1] # <<>>
                            THEN @ \o output_refs[1] ELSE @,
                        !.updated_at = now]
    /\ UNCHANGED <<permVars, ruleVars, runVars, approvalVars, eventVars, checkpointVars, resolveVars, agentVars, threadVars, resolverVars, thinVars, busVars, readerVars>>

\* Task.fail
Task_fail(error_message) ==
    /\ task_call' = [op |-> "fail", before |-> task,
                     raised |-> IF task.status # "in_progress"
                                THEN Task_InvalidStateError("fail", task)
                                ELSE None]
    /\ task' = IF task.status # "in_progress" THEN task
               ELSE [task EXCEPT !.status = "failed",
                                 !.error_message = Some(error_message),
                                 !.updated_at = now]
    /\ UNCHANGED <<permVars, ruleVars, runVars, approvalVars, eventVars, checkpointVars, resolveVars, agentVars, threadVars, resolverVars, thinVars, busVars, readerVars>>

\* Task.is_active / Task.is_terminal
Task_is_active(self) == self.status \in {"pending", "in_progress", "blocked"}
Task_is_terminal(self) == self.status \in {"completed", "failed"}

(***************************************************************************)
(* Approval (domain/entities/approval.py).                                 *)
(***************************************************************************)
ApprovalStatus == {"pending", "approved", "rejected", "expired"}

\* ApprovalType, and the text of each member's value.
ApprovalType ==
    {"file_edit", "file_create", "file_delete", "bash_command", "git_push"}

ApprovalTypeValue(type) ==
    CASE type = "file_edit" -> <<"f","i","l","e","_","e","d","i","t">>
      [] type = "file_create" -> <<"f","i","l","e","_","c","r","e","a","t","e">>
      [] type = "file_delete" -> <<"f","i","l","e","_","d","e","l","e","t","e">>
      [] type = "bash_command" -> <<"b","a","s","h","_","c","o","m","m","a","n","d">>
      [] type = "git_push" -> <<"g","i","t","_","p","u","s","h">>

\* str.lower() on the letters the model's targets are made of.
lower(s) ==
    LET map == "D" :> "d" @@ "R" :> "r" @@ "O" :> "o" @@ "P" :> "p" @@
               "E" :> "e" @@ "L" :> "l" @@
               "T" :> "t" @@ "N" :> "n" @@ "V" :> "v" @@ "S" :> "s" @@ "G" :> "g"
    IN  [i \in 1..Len(s) |-> IF s[i] \in DOMAIN map THEN map[s[i]] ELSE s[i]]

\* sep.join(parts)
RECURSIVE join(_, _)
join(sep, parts) ==
    IF parts = <<>> THEN <<>>
    ELSE IF Len(parts) = 1 THEN parts[1]
    ELSE parts[1] \o sep \o join(sep, Tail(parts))

risk_by_type(type) ==
    CASE type \in {"file_edit", "file_create"} -> 2
      [] type \in {"file_delete", "git_push"} -> 4
      [] type = "bash_command" -> 3
      [] OTHER -> 2

dangerous_patterns ==
    <<<<"r","m"," ">>,
      <<"s","u","d","o">>,
      <<"D","R","O","P">>,
      <<"D","E","L","E","T","E">>,
      <<"-","-","f","o","r","c","e">>,
      <<"-","r","f">>>>

sensitive_paths ==
    <<<<".","e","n","v">>,
      <<"c","r","e","d","e","n","t","i","a","l","s">>,
      <<"s","e","c","r","e","t">>,
      <<"p","a","s","s","w","o","r","d">>,
      <<".","g","i","t","/">>>>

\* The loops of assess_risk: the patterns found in text, in list order.
found(patterns, text) == SelectSeq(patterns, LAMBDA p : contains(text, p))

\* score = min(5, score + 1), once per pattern found
RECURSIVE raise_score(_, _)
raise_score(score, hits) ==
    IF hits = 0 THEN score
    ELSE raise_score(IF score + 1 < 5 THEN score + 1 ELSE 5, hits - 1)

\* assess_risk comparing the sensitive paths with the target as it is written.
assess_risk_without_lower(self) ==
    LET dangerous == found(dangerous_patterns, self.target)
        sensitive == found(sensitive_paths, self.target)
        reasons ==
            [i \in 1..Len(dangerous) |->
                <<"c","o","n","t","a","i","n","s"," ","'">> \o dangerous[i] \o <<"'">>]
            \o [i \in 1..Len(sensitive) |->
                <<"t","o","u","c","h","e","s"," ","s","e","n","s","i","t","i","v","e"," ","p","a","t","h"," ","'">> \o sensitive[i] \o <<"'">>]
    IN  [self EXCEPT
            !.risk_score =
                raise_score(risk_by_type(self.type),
                            Len(dangerous) + Len(sensitive)),
            !.risk_reason =
                IF reasons # <<>> THEN join(<<",", " ">>, reasons)
                ELSE <<"s","t","a","n","d","a","r","d"," ">> \o ApprovalTypeValue(self.type)]

\* Approval.assess_risk: the Approval with risk_score and risk_reason set
assess_risk(self) ==
    LET dangerous == found(dangerous_patterns, self.target)
        sensitive == found(sensitive_paths, lower(self.target))
        reasons ==
            [i \in 1..Len(dangerous) |->
                <<"c","o","n","t","a","i","n","s"," ","'">> \o dangerous[i] \o <<"'">>]
            \o [i \in 1..Len(sensitive) |->
                <<"t","o","u","c","h","e","s"," ","s","e","n","s","i","t","i","v","e"," ","p","a","t","h"," ","'">> \o sensitive[i] \o <<"'">>]
    IN  [self EXCEPT
            !.risk_score =
                raise_score(risk_by_type(self.type),
                            Len(dangerous) + Len(sensitive)),
            !.risk_reason =
                IF reasons # <<>> THEN join(<<",", " ">>, reasons)
                ELSE <<"s","t","a","n","d","a","r","d"," ">> \o ApprovalTypeValue(self.type)]

\* Approval(...) at time utcnow: the fields given and the dataclass defaults
Approval_init(approval_type, target, utcnow) ==
    [type |-> approval_type, target |-> target,
     status |-> "pending", risk_score |-> 1, risk_reason |-> <<>>,
     created_at |-> utcnow, expires_at |-> None,
     resolved_at |-> None, resolved_by |-> None, comment |-> ""]

\* Approval.create at time utcnow: the constructor, then assess_risk
Approval_create(approval_type, target, utcnow) ==
    assess_risk(Approval_init(approval_type, target, utcnow))

\* Approval.is_expired read at time utcnow, looking at the status only.
is_expired_by_status_only(self, utcnow) == self.status = "expired"

\* Approval.is_expired read at time utcnow
is_expired(self, utcnow) ==
    IF self.status = "expired" THEN TRUE
    ELSE IF self.expires_at # None /\ utcnow > self.expires_at[1] THEN TRUE
    ELSE FALSE

\* Approval.is_pending / is_resolved / is_approved
is_pending(self) == self.status = "pending"
is_resolved(self) == self.status \in {"approved", "rejected"}
is_approved(self) == self.status = "approved"

\* A _resolve that does not look at the status or the expiry
_resolve_in_any_status(self, new_status, resolved_by, comment, utcnow) ==
    [self |-> [self EXCEPT !.status = new_status,
                           !.resolved_at = Some(utcnow),
                           !.resolved_by = Some(resolved_by),
                           !.comment = comment],
     raised |-> None]

\* Approval._resolve: the Approval afterwards and what was raised
_resolve(self, new_status, resolved_by, comment, utcnow) ==
    IF self.status # "pending"
    THEN [self |-> self,
          raised |-> Some(<<"InvalidStateError", "Cannot resolve approval in ",
                            self.status, " status">>)]
    ELSE IF is_expired(self, utcnow)
    THEN [self |-> self,
          raised |-> Some(<<"InvalidStateError",
                            "Cannot resolve expired approval", "", "">>)]
    ELSE [self |-> [self EXCEPT !.status = new_status,
                                !.resolved_at = Some(utcnow),
                                !.resolved_by = Some(resolved_by),
                                !.comment = comment],
          raised |-> None]

\* The arguments approve and reject are called with.
ResolvedBy == {"user", "auto"}
Comments == {"", "LGTM"}

\* Approval.approve; the call record keeps the Approval as it was and the
\* time of the call.
approve(resolved_by, comment) ==
    LET r == _resolve(approval, "approved", resolved_by, comment, now) IN
    /\ approval' = r.self
    /\ approval_call' = [op |-> "approve", before |-> approval, at |-> now,
                         raised |-> r.raised]
    /\ UNCHANGED <<permVars, ruleVars, runVars, taskVars, eventVars, checkpointVars, resolveVars, agentVars, threadVars, resolverVars, thinVars, busVars, readerVars>>

\* Approval.reject
reject(resolved_by, comment) ==
    LET r == _resolve(approval, "rejected", resolved_by, comment, now) IN
    /\ approval' = r.self
    /\ approval_call' = [op |-> "reject", before |-> approval, at |-> now,
                         raised |-> r.raised]
    /\ UNCHANGED <<permVars, ruleVars, runVars, taskVars, eventVars, checkpointVars, resolveVars, agentVars, threadVars, resolverVars, thinVars, busVars, readerVars>>

\* Approval.expire without its test of the status.
expire_unguarded ==
    /\ approval' = [approval EXCEPT !.status = "expired",
                                    !.resolved_at = Some(now)]
    /\ approval_call' = [op |-> "expire", before |-> approval, at |-> now,
                         raised |-> None]
    /\ UNCHANGED <<permVars, ruleVars, runVars, taskVars, eventVars, checkpointVars, resolveVars, agentVars, threadVars, resolverVars, thinVars, busVars, readerVars>>

\* Approval.expire
expire ==
    /\ approval' = IF approval.status # "pending" THEN approval
                   ELSE [approval EXCEPT !.status = "expired",
                                         !.resolved_at = Some(now)]
    /\ approval_call' =
          [op |-> "expire", before |-> approval, at |-> now,
           raised |-> IF approval.status # "pending"
                      THEN Some(<<"InvalidStateError",
                                  "Cannot expire approval in ",
                                  approval.status, " status">>)
                      ELSE None]
    /\ UNCHANGED <<permVars, ruleVars, runVars, taskVars, eventVars, checkpointVars, resolveVars, agentVars, threadVars, resolverVars, thinVars, busVars, readerVars>>

\* The targets Approval.create is called with: up to MaxTargetPieces of
\* these pieces, one after the other.
MaxTargetPieces == 2

TargetPieces ==
    {<<"r","m"," ">>,
     <<"-","r","f">>,
     <<"s","u","d","o">>,
     <<"D","R","O","P">>,
     <<"d","r","o","p">>,
     <<"D","E","L","E","T","E">>,
     <<"-","-","f","o","r","c","e">>,
     <<".","e","n","v">>,
     <<".","E","N","V">>,
     <<"c","r","e","d","e","n","t","i","a","l","s">>,
     <<"S","e","c","r","e","t">>,
     <<"p","a","s","s","w","o","r","d">>,
     <<".","g","i","t","/">>,
     <<"s","r","c","/","m","a","i","n",".","p","y">>,
     <<"-","r","f"," ","/","t","m","p","/","x">>}

RECURSIVE Targets(_)
Targets(n) ==
    IF n = 0 THEN {<<>>}
    ELSE Targets(n - 1)
         \cup {t \o p : t \in Targets(n - 1), p \in TargetPieces}

\* approval.assess_risk(), the call Approval.create ends with
AssessRisk ==
    /\ approval' = assess_risk(approval)
    /\ approval_call' = [op |-> "assess_risk", before |-> approval, at |-> now,
                         raised |-> None]
    /\ UNCHANGED <<permVars, ruleVars, runVars, taskVars, eventVars, checkpointVars, resolveVars, agentVars, threadVars, resolverVars, thinVars, busVars, readerVars>>

(***************************************************************************)
(* The event log: InMemoryEventRepository, EventBus.publish and            *)
(* GetTimelineUseCase.                                                     *)
(***************************************************************************)
MaxEvents == 3
MaxLimit == 2

\* The run ids, event types and payloads the calls are made with.  "run-9"
\* is the id of no run.
KnownRuns == {"run-1", "run-2"}
RunIds == KnownRuns \cup {"run-9"}
EventType == {"run.started", "info"}
EventData == {None, Some([message |-> "hello"])}
SinceIds == {None} \cup {Some(id) : id \in 0..MaxEvents}
Limits == 0..MaxLimit

\* Event.create at time utcnow: data or {}
Event_create(event_id, run_id, event_type, data, utcnow) ==
    [id |-> event_id, run_id |-> run_id, type |-> event_type,
     timestamp |-> utcnow,
     data |-> IF data = None \/ data = Some(EmptyArgs) THEN EmptyArgs
              ELSE data[1]]

\* Event.to_summary: the type with its dot replaced by a space, then the
\* first of path, target, message (50 characters of it), tool the payload has
to_summary(self) ==
    LET type_str ==
            CASE self.type = "run.started" -> "run started"
              [] OTHER -> self.type
    IN  IF "path" \in DOMAIN self.data THEN <<type_str, " ", self.data.path>>
        ELSE IF "target" \in DOMAIN self.data
        THEN <<type_str, " ", self.data.target>>
        ELSE IF "message" \in DOMAIN self.data
        THEN <<type_str, ": ", self.data.message>>
        ELSE IF "tool" \in DOMAIN self.data
        THEN <<type_str, " ", self.data.tool>>
        ELSE <<type_str>>

\* InMemoryEventRepository()
InMemoryEventRepository == [_events |-> <<>>, _next_id |-> 1]

\* save as it would be if the new event took the place of the last one.
save_over_last(self, event) ==
    [self EXCEPT !._events =
        IF @ = <<>> THEN <<event>>
        ELSE SubSeq(@, 1, Len(@) - 1) \o <<event>>]

\* InMemoryEventRepository.save
save(self, event) == [self EXCEPT !._events = Append(@, event)]

\* InMemoryEventRepository.find_by_id: the first stored event of that id
find_by_id(self, event_id) ==
    LET at == {i \in 1..Len(self._events) : self._events[i].id = event_id}
    IN  IF at = {} THEN None
        ELSE Some(self._events[CHOOSE i \in at : \A j \in at : i <= j])

\* list.sort(key=lambda e: e.id): a stable sort, by insertion
RECURSIVE sort_by_id(_)
sort_by_id(events) ==
    IF events = <<>> THEN <<>>
    ELSE LET sorted == sort_by_id(SubSeq(events, 1, Len(events) - 1))
             e == events[Len(events)]
             before == {i \in 1..Len(sorted) : sorted[i].id <= e.id}
             k == Cardinality(before)
         IN  SubSeq(sorted, 1, k) \o <<e>> \o SubSeq(sorted, k + 1, Len(sorted))

\* events[:limit] for a limit that is not negative
first(events, limit) ==
    SubSeq(events, 1, IF limit < Len(events) THEN limit ELSE Len(events))

\* find_by_run as it would be without its sort.
find_by_run_unsorted(self, run_id, since_id, limit) ==
    LET of_run == SelectSeq(self._events, LAMBDA e : e.run_id = run_id)
        events == IF since_id # None
                  THEN SelectSeq(of_run, LAMBDA e : e.id > since_id[1])
                  ELSE of_run
    IN  first(events, limit)

\* InMemoryEventRepository.find_by_run
find_by_run(self, run_id, since_id, limit) ==
    LET of_run == SelectSeq(self._events, LAMBDA e : e.run_id = run_id)
        events == IF since_id # None
                  THEN SelectSeq(of_run, LAMBDA e : e.id > since_id[1])
                  ELSE of_run
    IN  first(sort_by_id(events), limit)

\* InMemoryEventRepository.find_by_type
find_by_type(self, run_id, event_type, limit) ==
    first(sort_by_id(SelectSeq(self._events,
                               LAMBDA e : e.run_id = run_id
                                          /\ e.type = event_type)),
          limit)

\* InMemoryEventRepository.get_latest_id
get_latest_id(self, run_id) ==
    LET ids == {self._events[i].id : i \in
                 {j \in 1..Len(self._events) : self._events[j].run_id = run_id}}
    IN  IF ids = {} THEN None
        ELSE Some(CHOOSE id \in ids : \A other \in ids : other <= id)

\* InMemoryEventRepository.count_by_run
count_by_run(self, run_id) ==
    Len(SelectSeq(self._events, LAMBDA e : e.run_id = run_id))

\* next_id as it would be if it did not advance the counter.
next_id_without_increment(self) == [self |-> self, result |-> self._next_id]

\* InMemoryEventRepository.next_id: the repository afterwards and the id
next_id(self) ==
    [self |-> [self EXCEPT !._next_id = @ + 1], result |-> self._next_id]

\* InMemoryEventRepository.clear
clear(self) == [self EXCEPT !._events = <<>>, !._next_id = 1]

\* InMemoryEventRepository.count
count(self) == Len(self._events)

\* InMemoryRunRepository.find_by_id: the run, here its id, or None
Run_find_by_id(runs, run_id) == IF run_id \in runs THEN Some(run_id) ELSE None

\* execute as it would be if it asked the repository for limit events only.
execute_without_extra_event(runs, events_repository, request) ==
    LET events == find_by_run(events_repository, request.run_id,
                              request.since_event_id, request.limit)
    IN  [raised |-> None,
         result |->
            [run_id |-> request.run_id,
             events |-> [i \in 1..Len(events) |->
                            [id |-> events[i].id, type |-> events[i].type,
                             timestamp |-> events[i].timestamp,
                             summary |-> to_summary(events[i]),
                             data |-> events[i].data]],
             latest_event_id |->
                IF events # <<>> THEN Some(events[Len(events)].id) ELSE None,
             has_more |-> FALSE]]

\* GetTimelineUseCase.execute: the response or the error raised
execute(runs, events_repository, request) ==
    IF Run_find_by_id(runs, request.run_id) = None
    THEN [raised |-> Some(<<"NotFoundError", "Run", request.run_id>>),
          result |-> None]
    ELSE
    LET found_events == find_by_run(events_repository, request.run_id,
                                    request.since_event_id, request.limit + 1)
        has_more == Len(found_events) > request.limit
        events == IF has_more THEN first(found_events, request.limit)
                  ELSE found_events
    IN  [raised |-> None,
         result |->
            [run_id |-> request.run_id,
             events |-> [i \in 1..Len(events) |->
                            [id |-> events[i].id, type |-> events[i].type,
                             timestamp |-> events[i].timestamp,
                             summary |-> to_summary(events[i]),
                             data |-> events[i].data]],
             latest_event_id |->
                IF events # <<>> THEN Some(events[Len(events)].id) ELSE None,
             has_more |-> has_more]]

NoLogCall == [op |-> "none", args |-> <<>>, result |-> None, raised |-> None]

\* EventBus.publish on a bus that has the repository and no handler: the next
\* id is taken, the event created and saved, and the event returned.  A call
\* is made when the one before has returned.
Publish(run_id, event_type, data) ==
    LET taken == next_id(event_repository)
        event == Event_create(taken.result, run_id, event_type, data, now)
    IN  /\ log_call = NoLogCall
        /\ Len(event_repository._events) < MaxEvents
        /\ event_repository' = save(taken.self, event)
        /\ log_call' = [op |-> "publish", args |-> <<run_id, event_type, data>>,
                        result |-> Some(event), raised |-> None]
        /\ UNCHANGED run_repository
        /\ UNCHANGED <<permVars, ruleVars, runVars, taskVars, approvalVars, checkpointVars, resolveVars, agentVars, threadVars, resolverVars, thinVars, busVars, readerVars>>

\* repository.save of an event made by Event.create with any id
Save(event_id, run_id) ==
    LET event == Event_create(event_id, run_id, "info", None, now)
    IN  /\ log_call = NoLogCall
        /\ Len(event_repository._events) < MaxEvents
        /\ event_repository' = save(event_repository, event)
        /\ log_call' = [op |-> "save", args |-> <<event>>,
                        result |-> None, raised |-> None]
        /\ UNCHANGED run_repository
        /\ UNCHANGED <<permVars, ruleVars, runVars, taskVars, approvalVars, checkpointVars, resolveVars, agentVars, threadVars, resolverVars, thinVars, busVars, readerVars>>

\* repository.next_id
NextId ==
    LET taken == next_id(event_repository)
    IN  /\ log_call = NoLogCall
        /\ event_repository._next_id <= MaxEvents
        /\ event_repository' = taken.self
        /\ log_call' = [op |-> "next_id", args |-> <<>>,
                        result |-> Some(taken.result), raised |-> None]
        /\ UNCHANGED run_repository
        /\ UNCHANGED <<permVars, ruleVars, runVars, taskVars, approvalVars, checkpointVars, resolveVars, agentVars, threadVars, resolverVars, thinVars, busVars, readerVars>>

\* repository.clear
Clear ==
    /\ log_call = NoLogCall
    /\ event_repository' = clear(event_repository)
    /\ log_call' = [op |-> "clear", args |-> <<>>,
                    result |-> None, raised |-> None]
    /\ UNCHANGED run_repository
    /\ UNCHANGED <<permVars, ruleVars, runVars, taskVars, approvalVars, checkpointVars, resolveVars, agentVars, threadVars, resolverVars, thinVars, busVars, readerVars>>

\* repository.find_by_id
FindById(event_id) ==
    /\ log_call = NoLogCall
    /\ log_call' = [op |-> "find_by_id", args |-> <<event_id>>,
                    result |-> find_by_id(event_repository, event_id),
                    raised |-> None]
    /\ UNCHANGED <<event_repository, run_repository, checkpointVars>>
    /\ UNCHANGED <<permVars, ruleVars, runVars, taskVars, approvalVars, checkpointVars, resolveVars, agentVars, threadVars, resolverVars, thinVars, busVars, readerVars>>

\* repository.find_by_run
FindByRun(run_id, since_id, limit) ==
    /\ log_call = NoLogCall
    /\ log_call' = [op |-> "find_by_run", args |-> <<run_id, since_id, limit>>,
                    result |-> find_by_run(event_repository, run_id, since_id, limit),
                    raised |-> None]
    /\ UNCHANGED <<event_repository, run_repository, checkpointVars>>
    /\ UNCHANGED <<permVars, ruleVars, runVars, taskVars, approvalVars, checkpointVars, resolveVars, agentVars, threadVars, resolverVars, thinVars, busVars, readerVars>>

\* repository.find_by_type
FindByType(run_id, event_type, limit) ==
    /\ log_call = NoLogCall
    /\ log_call' = [op |-> "find_by_type", args |-> <<run_id, event_type, limit>>,
                    result |-> find_by_type(event_repository, run_id, event_type, limit),
                    raised |-> None]
    /\ UNCHANGED <<event_repository, run_repository, checkpointVars>>
    /\ UNCHANGED <<permVars, ruleVars, runVars, taskVars, approvalVars, checkpointVars, resolveVars, agentVars, threadVars, resolverVars, thinVars, busVars, readerVars>>

\* repository.get_latest_id
GetLatestId(run_id) ==
    /\ log_call = NoLogCall
    /\ log_call' = [op |-> "get_latest_id", args |-> <<run_id>>,
                    result |-> get_latest_id(event_repository, run_id),
                    raised |-> None]
    /\ UNCHANGED <<event_repository, run_repository, checkpointVars>>
    /\ UNCHANGED <<permVars, ruleVars, runVars, taskVars, approvalVars, checkpointVars, resolveVars, agentVars, threadVars, resolverVars, thinVars, busVars, readerVars>>

\* repository.count_by_run
CountByRun(run_id) ==
    /\ log_call = NoLogCall
    /\ log_call' = [op |-> "count_by_run", args |-> <<run_id>>,
                    result |-> count_by_run(event_repository, run_id),
                    raised |-> None]
    /\ UNCHANGED <<event_repository, run_repository, checkpointVars>>
    /\ UNCHANGED <<permVars, ruleVars, runVars, taskVars, approvalVars, checkpointVars, resolveVars, agentVars, threadVars, resolverVars, thinVars, busVars, readerVars>>

\* GetTimelineUseCase.execute
Execute(run_id, since_event_id, limit) ==
    LET request == [run_id |-> run_id, since_event_id |-> since_event_id,
                    limit |-> limit]
        r == execute(run_repository, event_repository, request)
    IN  /\ log_call = NoLogCall
        /\ log_call' = [op |-> "execute", args |-> <<run_id, since_event_id, limit>>,
                        result |-> r.result, raised |-> r.raised]
        /\ UNCHANGED <<event_repository, run_repository, checkpointVars>>
        /\ UNCHANGED <<permVars, ruleVars, runVars, taskVars, approvalVars, checkpointVars, resolveVars, agentVars, threadVars, resolverVars, thinVars, busVars, readerVars>>

\* The call returns to its caller.
LogReturn ==
    /\ log_call # NoLogCall
    /\ log_call' = NoLogCall
    /\ UNCHANGED <<event_repository, run_repository, checkpointVars>>
    /\ UNCHANGED <<permVars, ruleVars, runVars, taskVars, approvalVars, checkpointVars, resolveVars, agentVars, threadVars, resolverVars, thinVars, busVars, readerVars>>

(***************************************************************************)
(* File checkpoints (backends/file_checkpoint.py).                         *)
(*                                                                         *)
(* A file holds bytes; read_text decodes them as UTF-8 in text mode and    *)
(* write_text encodes text, as pathlib does on POSIX.  The JSON file of a  *)
(* checkpoint is kept as the checkpoint it holds; mtime, which restore     *)
(* never reads, is left out of a snapshot.                                 *)
(***************************************************************************)
MaxCheckpoints == 2
\* The checkpoints made where two files are looked after.
MaxRestorable == 1
\* The checkpoints made where they are listed and pruned; the turns.
MaxStored == 3
MaxTurn == 1

\* The paths of the files, resolved, and the ways track_file is given the
\* first of them; the working directory is /w.
Paths == {"/w/d/f.txt", "/w/d/g.txt"}
OneFile == {"/w/d/f.txt"}
FileArgs == {"/w/d/f.txt", "d/f.txt"}

\* Path.cwd() / path for a relative path, then Path.resolve()
resolve(file_path) ==
    CASE file_path = "d/f.txt" -> "/w/d/f.txt"
      [] OTHER -> file_path

\* What a file may hold: bytes.  "CR" and "LF" are the two line-end bytes,
\* "0xFF" a byte no UTF-8 text has.
FileContents ==
    {<<>>, <<"a">>, <<"a", "LF", "b">>, <<"a", "CR", "LF", "b">>,
     <<"0xFF", "a">>}
Messages == {"before edit"}

\* Text mode with newline=None: \r\n and \r are read as \n
RECURSIVE universal_newlines(_)
universal_newlines(bytes) ==
    IF bytes = <<>> THEN <<>>
    ELSE IF Head(bytes) = "CR"
    THEN IF Len(bytes) > 1 /\ bytes[2] = "LF"
         THEN <<"LF">> \o universal_newlines(SubSeq(bytes, 3, Len(bytes)))
         ELSE <<"LF">> \o universal_newlines(Tail(bytes))
    ELSE <<Head(bytes)>> \o universal_newlines(Tail(bytes))

\* Path.read_text(encoding="utf-8"): the text, or UnicodeDecodeError
read_text(bytes) ==
    IF \E i \in 1..Len(bytes) : bytes[i] = "0xFF"
    THEN [raised |-> Some("UnicodeDecodeError"), text |-> <<>>]
    ELSE [raised |-> None, text |-> universal_newlines(bytes)]

\* Path.write_text(content, encoding="utf-8") on POSIX: each character is
\* written as its byte, "\n" as the byte LF
write_text(content) ==
    [i \in 1..Len(content) |-> CASE content[i] = "LF" -> "LF"
                                 [] OTHER -> content[i]]

\* FileCheckpointManager(storage_dir, turn)
FileCheckpointManager(turn) ==
    [_tracked_files |-> [path \in {} |-> None], _turn |-> turn]

\* FileCheckpointManager.track_file, on the file system files
track_file(self, files, file_path) ==
    LET path_str == resolve(file_path)
        read == read_text(files.files[path_str][1])
        snapshot ==
            IF files.files[path_str] # None
            THEN IF read.raised = None
                 THEN Some([path |-> path_str, content |-> read.text])
                 ELSE None
            ELSE None
    IN  IF path_str \in DOMAIN self._tracked_files THEN self
        ELSE [self EXCEPT !._tracked_files =
                [path \in DOMAIN @ \cup {path_str} |->
                    IF path = path_str THEN snapshot ELSE @[path]]]

\* A create that leaves the tracked files as they are
clear_tracked_keeps_files(self) == self

\* self._tracked_files.clear(), of create and of clear_tracked
clear_tracked(self) ==
    [self EXCEPT !._tracked_files = [path \in {} |-> None]]

\* The snapshots create collects: the tracked values that are not None
collect_snapshots(self) ==
    LET tracked == {path \in DOMAIN self._tracked_files :
                       self._tracked_files[path] # None}
        RECURSIVE list(_)
        list(paths) ==
            IF paths = {} THEN <<>>
            ELSE LET path == CHOOSE one \in paths : TRUE
                 IN  <<self._tracked_files[path][1]>> \o list(paths \ {path})
    IN  list(tracked)

\* FileCheckpointManager.create: the checkpoint made with the id given
Checkpoint_create(self, checkpoint_id, message, timestamp) ==
    [id |-> checkpoint_id, turn |-> self._turn, timestamp |-> timestamp,
     message |-> message, snapshots |-> collect_snapshots(self)]

\* A _save_checkpoint that writes every checkpoint to one file
_save_checkpoint_one_file(storage, checkpoint) == <<checkpoint>>

\* FileCheckpointManager._save_checkpoint: the file <id>.json is written, in
\* the place of the one of that name if there is one
_save_checkpoint(storage, checkpoint) ==
    IF \E i \in 1..Len(storage) : storage[i].id = checkpoint.id
    THEN [i \in 1..Len(storage) |->
             IF storage[i].id = checkpoint.id THEN checkpoint ELSE storage[i]]
    ELSE Append(storage, checkpoint)

\* FileCheckpointManager._load_checkpoint: the checkpoint of the file
\* <id>.json of the storage directory, None when there is no such file
_load_checkpoint(storage, checkpoint_id) ==
    LET at == {i \in 1..Len(storage) : storage[i].id = checkpoint_id}
    IN  IF at = {} THEN None ELSE Some(storage[CHOOSE i \in at : TRUE])

\* A loop that gives up at the first snapshot it cannot write
RECURSIVE restore_snapshots_stops_at_failure(_, _, _)
restore_snapshots_stops_at_failure(snapshots, files, restored_paths) ==
    IF snapshots = <<>> THEN [fs |-> files, restored_paths |-> restored_paths]
    ELSE LET snapshot == Head(snapshots)
             written == [files EXCEPT !.dir = TRUE,
                                      !.files[snapshot.path] =
                                          Some(write_text(snapshot.content))]
         IN  IF snapshot.path \in files.dirs
             THEN [fs |-> files, restored_paths |-> restored_paths]
             ELSE restore_snapshots_stops_at_failure(
                      Tail(snapshots), written,
                      Append(restored_paths, snapshot.path))

\* The loop of restore over the snapshots: the file system afterwards and the
\* paths restored.  mkdir(parents=True, exist_ok=True), then write_text, which
\* fails where a directory stands at the path.
RECURSIVE restore_snapshots(_, _, _)
restore_snapshots(snapshots, files, restored_paths) ==
    IF snapshots = <<>> THEN [fs |-> files, restored_paths |-> restored_paths]
    ELSE LET snapshot == Head(snapshots)
             made == [files EXCEPT !.dir = TRUE]
             written == [made EXCEPT !.files[snapshot.path] =
                                        Some(write_text(snapshot.content))]
         IN  IF snapshot.path \in files.dirs
             THEN \* write_text raises IsADirectoryError, an OSError: continue
                  restore_snapshots(Tail(snapshots), made, restored_paths)
             ELSE restore_snapshots(Tail(snapshots), written,
                                    Append(restored_paths, snapshot.path))

\* A restore that takes a missing checkpoint for one with no snapshots
restore_missing_as_empty(storage, files, checkpoint_id) ==
    LET checkpoint == _load_checkpoint(storage, checkpoint_id)
        snapshots == IF checkpoint = None THEN <<>> ELSE checkpoint[1].snapshots
        done == restore_snapshots(snapshots, files, <<>>)
    IN  [fs |-> done.fs, result |-> Some(done.restored_paths), raised |-> None]

\* FileCheckpointManager.restore: the file system afterwards and the paths
\* restored, or CheckpointNotFoundError
restore(storage, files, checkpoint_id) ==
    LET checkpoint == _load_checkpoint(storage, checkpoint_id)
    IN  IF checkpoint = None
        THEN [fs |-> files, result |-> None,
              raised |-> Some(<<"CheckpointNotFoundError",
                                "Checkpoint not found: ", checkpoint_id>>)]
        ELSE LET done == restore_snapshots(checkpoint[1].snapshots, files, <<>>)
             IN  [fs |-> done.fs, result |-> Some(done.restored_paths),
                  raised |-> None]

\* FileCheckpointManager.increment_turn: the manager afterwards
increment_turn(self) == [self EXCEPT !._turn = @ + 1]

\* checkpoints.sort(key=lambda c: c.timestamp, reverse=True): newest first,
\* checkpoints of one timestamp in the order they had.  The order glob gives
\* the files in is taken to be the order they were made in.
RECURSIVE sort_newest_first(_)
sort_newest_first(checkpoints) ==
    IF checkpoints = <<>> THEN <<>>
    ELSE LET last == checkpoints[Len(checkpoints)]
             sorted == sort_newest_first(
                           SubSeq(checkpoints, 1, Len(checkpoints) - 1))
             k == Cardinality({i \in 1..Len(sorted) :
                                  sorted[i].timestamp >= last.timestamp})
         IN  SubSeq(sorted, 1, k) \o <<last>>
                \o SubSeq(sorted, k + 1, Len(sorted))

\* FileCheckpointManager.list_checkpoints(limit), limit not negative
list_checkpoints(storage, limit) == first(sort_newest_first(storage), limit)

\* The limit with which clear_old lists the checkpoints to "get all" of
\* them: 10000 in the source, here the same thing two checkpoints large, for
\* a storage directory of at most MaxStored.
ListAllLimit == 2

\* FileCheckpointManager.clear_old(keep_last), keep_last not negative: the
\* storage directory afterwards and the number of files deleted
clear_old(storage, keep_last) ==
    LET checkpoints == list_checkpoints(storage, ListAllLimit)
        to_delete == SubSeq(checkpoints, keep_last + 1, Len(checkpoints))
        deleted(checkpoint) == \E i \in 1..Len(to_delete) :
                                  to_delete[i].id = checkpoint.id
    IN  IF Len(checkpoints) <= keep_last
        THEN [storage |-> storage, result |-> 0]
        ELSE [storage |-> SelectSeq(storage, LAMBDA c : ~deleted(c)),
              result |-> Len(to_delete)]

\* History: what a path held when track_file first met it in the epoch.
Untracked == [tracked |-> FALSE, bytes |-> None]
NoCheckpointCall ==
    [op |-> "none", args |-> <<>>, nums |-> <<>>, result |-> None,
     raised |-> None]

\* manager.track_file(file_path)
TrackFile(file_path) ==
    LET path_str == resolve(file_path)
    IN  /\ checkpoint_manager' = track_file(checkpoint_manager, fs, file_path)
        /\ origin' = IF origin.epoch[path_str].tracked THEN origin
                     ELSE [origin EXCEPT !.epoch[path_str] =
                              [tracked |-> TRUE, bytes |-> fs.files[path_str]]]
        /\ checkpoint_call' = [op |-> "track_file",
                               args |-> <<file_path>>, nums |-> <<>>,
                               result |-> None, raised |-> None]
        /\ UNCHANGED <<fs, storage_dir, uuid4>>
        /\ UNCHANGED <<permVars, ruleVars, runVars, taskVars, approvalVars, eventVars, resolveVars, agentVars, threadVars, resolverVars, thinVars, busVars, readerVars>>

\* manager.create(message): uuid4 gives an id no checkpoint had, the
\* checkpoint is saved in the storage directory, the tracked files cleared
CheckpointCreate(message, checkpoint_id) ==
    LET checkpoint == Checkpoint_create(checkpoint_manager, checkpoint_id,
                                        message, now)
    IN  /\ checkpoint_id = uuid4 + 1
        /\ uuid4' = checkpoint_id
        /\ storage_dir' = _save_checkpoint(storage_dir, checkpoint)
        /\ checkpoint_manager' = clear_tracked(checkpoint_manager)
        /\ origin' = [epoch |-> [path \in Paths |-> Untracked],
                      checkpoints |-> Append(origin.checkpoints, origin.epoch)]
        /\ checkpoint_call' = [op |-> "create",
                               args |-> <<message>>, nums |-> <<>>,
                               result |-> Some(checkpoint), raised |-> None]
        /\ UNCHANGED fs
        /\ UNCHANGED <<permVars, ruleVars, runVars, taskVars, approvalVars, eventVars, resolveVars, agentVars, threadVars, resolverVars, thinVars, busVars, readerVars>>

\* manager.restore(checkpoint_id)
Restore(checkpoint_id) ==
    LET r == restore(storage_dir, fs, checkpoint_id)
    IN  /\ fs' = r.fs
        /\ checkpoint_call' = [op |-> "restore",
                               args |-> <<>>, nums |-> <<checkpoint_id>>,
                               result |-> r.result, raised |-> r.raised]
        /\ UNCHANGED <<checkpoint_manager, storage_dir, uuid4, origin>>
        /\ UNCHANGED <<permVars, ruleVars, runVars, taskVars, approvalVars, eventVars, resolveVars, agentVars, threadVars, resolverVars, thinVars, busVars, readerVars>>

\* manager.clear_tracked()
ClearTracked ==
    /\ checkpoint_manager' = clear_tracked(checkpoint_manager)
    /\ origin' = [origin EXCEPT !.epoch = [path \in Paths |-> Untracked]]
    /\ checkpoint_call' = [op |-> "clear_tracked",
                           args |-> <<>>, nums |-> <<>>,
                           result |-> None, raised |-> None]
    /\ UNCHANGED <<fs, storage_dir, uuid4>>
    /\ UNCHANGED <<permVars, ruleVars, runVars, taskVars, approvalVars, eventVars, resolveVars, agentVars, threadVars, resolverVars, thinVars, busVars, readerVars>>

\* A tool writes the file: its directory is there and no directory stands
\* at the path, the file is made or overwritten.
WriteFile(path, content) ==
    /\ fs.dir
    /\ path \notin fs.dirs
    /\ fs' = [fs EXCEPT !.files[path] = Some(content)]
    /\ checkpoint_call' = [op |-> "write",
                           args |-> <<path>>, nums |-> <<>>,
                           result |-> None, raised |-> None]
    /\ UNCHANGED <<checkpoint_manager, storage_dir, uuid4, origin>>
    /\ UNCHANGED <<permVars, ruleVars, runVars, taskVars, approvalVars, eventVars, resolveVars, agentVars, threadVars, resolverVars, thinVars, busVars, readerVars>>

\* A tool deletes the file.
DeleteFile(path) ==
    /\ fs.files[path] # None
    /\ fs' = [fs EXCEPT !.files[path] = None]
    /\ checkpoint_call' = [op |-> "delete",
                           args |-> <<path>>, nums |-> <<>>,
                           result |-> None, raised |-> None]
    /\ UNCHANGED <<checkpoint_manager, storage_dir, uuid4, origin>>
    /\ UNCHANGED <<permVars, ruleVars, runVars, taskVars, approvalVars, eventVars, resolveVars, agentVars, threadVars, resolverVars, thinVars, busVars, readerVars>>

\* A tool makes a directory where a file could be.
MakeDir(path) ==
    /\ fs.dir
    /\ fs.files[path] = None
    /\ path \notin fs.dirs
    /\ fs' = [fs EXCEPT !.dirs = @ \cup {path}]
    /\ checkpoint_call' = [op |-> "mkdir",
                           args |-> <<path>>, nums |-> <<>>,
                           result |-> None, raised |-> None]
    /\ UNCHANGED <<checkpoint_manager, storage_dir, uuid4, origin>>
    /\ UNCHANGED <<permVars, ruleVars, runVars, taskVars, approvalVars, eventVars, resolveVars, agentVars, threadVars, resolverVars, thinVars, busVars, readerVars>>

\* A tool removes the directory and what is in it.
RemoveDir ==
    /\ fs.dir
    /\ fs' = [dir |-> FALSE, files |-> [path \in Paths |-> None], dirs |-> {}]
    /\ checkpoint_call' = [op |-> "rmtree",
                           args |-> <<>>, nums |-> <<>>,
                           result |-> None, raised |-> None]
    /\ UNCHANGED <<checkpoint_manager, storage_dir, uuid4, origin>>
    /\ UNCHANGED <<permVars, ruleVars, runVars, taskVars, approvalVars, eventVars, resolveVars, agentVars, threadVars, resolverVars, thinVars, busVars, readerVars>>

\* manager.increment_turn()
IncrementTurn ==
    /\ checkpoint_manager._turn < MaxTurn
    /\ checkpoint_manager' = increment_turn(checkpoint_manager)
    /\ checkpoint_call' = [op |-> "increment_turn",
                           args |-> <<>>, nums |-> <<>>,
                           result |-> None, raised |-> None]
    /\ UNCHANGED <<fs, storage_dir, uuid4, origin>>
    /\ UNCHANGED <<permVars, ruleVars, runVars, taskVars, approvalVars, eventVars, resolveVars, agentVars, threadVars, resolverVars, thinVars, busVars, readerVars>>

\* manager.list_checkpoints(limit)
ListCheckpoints(limit) ==
    /\ checkpoint_call' = [op |-> "list_checkpoints",
                           args |-> <<>>, nums |-> <<limit>>,
                           result |-> Some(list_checkpoints(storage_dir, limit)),
                           raised |-> None]
    /\ UNCHANGED <<fs, checkpoint_manager, storage_dir, uuid4, origin>>
    /\ UNCHANGED <<permVars, ruleVars, runVars, taskVars, approvalVars, eventVars, resolveVars, agentVars, threadVars, resolverVars, thinVars, busVars, readerVars>>

\* manager.clear_old(keep_last)
ClearOld(keep_last) ==
    LET r == clear_old(storage_dir, keep_last)
    IN  /\ storage_dir' = r.storage
        /\ checkpoint_call' = [op |-> "clear_old",
                               args |-> <<>>, nums |-> <<keep_last>>,
                               result |-> Some(r.result), raised |-> None]
        /\ UNCHANGED <<fs, checkpoint_manager, uuid4, origin>>
        /\ UNCHANGED <<permVars, ruleVars, runVars, taskVars, approvalVars, eventVars, resolveVars, agentVars, threadVars, resolverVars, thinVars, busVars, readerVars>>

(***************************************************************************)
(* Resolving approvals (application/use_cases/resolve_approval.py) over    *)
(* the in-memory approval repository and the event bus.  An Approval that  *)
(* is stored has its id and the id of its run.  find_by_id hands out the   *)
(* stored object itself, so what approve, reject or expire do to it they   *)
(* do to the stored Approval.                                              *)
(***************************************************************************)
ApprovalIds == {"approval-1", "approval-2"}
RequestIds == ApprovalIds \cup {"approval-9"}

\* Who resolves, and with what comment
Resolvers == {[resolved_by |-> "user", comment |-> "LGTM"],
              [resolved_by |-> "auto", comment |-> ""]}

\* The run each stored approval was asked in
ApprovalRun(approval_id) ==
    IF approval_id = "approval-1" THEN "run-1" ELSE "run-2"

\* Approval(id=..., run_id=..., ...): the entity with its two identities
Approval(approval_id, run_id, self) ==
    [id |-> approval_id, run_id |-> run_id,
     type |-> self.type, target |-> self.target, status |-> self.status,
     risk_score |-> self.risk_score, risk_reason |-> self.risk_reason,
     created_at |-> self.created_at, expires_at |-> self.expires_at,
     resolved_at |-> self.resolved_at, resolved_by |-> self.resolved_by,
     comment |-> self.comment]

\* InMemoryApprovalRepository()
InMemoryApprovalRepository == [_approvals |-> [approval_id \in {} |-> None]]

\* InMemoryApprovalRepository.save
ApprovalRepository_save(self, stored) ==
    [self EXCEPT !._approvals =
        [approval_id \in DOMAIN @ \cup {stored.id} |->
            IF approval_id = stored.id THEN stored ELSE @[approval_id]]]

\* InMemoryApprovalRepository.find_by_id
ApprovalRepository_find_by_id(self, approval_id) ==
    IF approval_id \in DOMAIN self._approvals
    THEN Some(self._approvals[approval_id])
    ELSE None

\* EventBus.publish on a bus that has the repository and no handler: the
\* repository afterwards and the event returned
publish(events_repository, run_id, event_type, data, utcnow) ==
    LET taken == next_id(events_repository)
        event == Event_create(taken.result, run_id, event_type, data, utcnow)
    IN  [repository |-> save(taken.self, event), event |-> event]

\* An execute that publishes the event before it calls approve or reject
execute_publishing_first(approvals, events_repository, request, utcnow) ==
    LET approval_found ==
            ApprovalRepository_find_by_id(approvals, request.approval_id)
    IN  IF approval_found = None
        THEN [approvals |-> approvals, events |-> events_repository,
              result |-> None,
              raised |-> Some(<<"NotFoundError", "Approval",
                                request.approval_id>>)]
        ELSE
        LET resolved == _resolve(
                            approval_found[1],
                            IF request.approved THEN "approved" ELSE "rejected",
                            request.resolved_by, request.comment, utcnow)
            event_type == IF request.approved THEN "approval.approved"
                          ELSE "approval.rejected"
            published ==
                publish(events_repository, resolved.self.run_id, event_type,
                        Some([approval_id |-> resolved.self.id,
                              target |-> resolved.self.target,
                              resolved_by |-> request.resolved_by,
                              comment |-> request.comment]),
                        utcnow)
        IN  IF resolved.raised # None
            THEN [approvals |-> approvals, events |-> published.repository,
                  result |-> None, raised |-> resolved.raised]
            ELSE [approvals |-> ApprovalRepository_save(approvals,
                                                        resolved.self),
                  events |-> published.repository,
                  result |-> Some([approval_id |-> resolved.self.id,
                                   status |-> resolved.self.status,
                                   target |-> resolved.self.target]),
                  raised |-> None]

\* ResolveApprovalUseCase.execute at time utcnow: the two repositories
\* afterwards, and the response or the error raised
ResolveApprovalUseCase_execute(approvals, events_repository, request, utcnow) ==
    LET approval_found ==
            ApprovalRepository_find_by_id(approvals, request.approval_id)
    IN  IF approval_found = None
        THEN [approvals |-> approvals, events |-> events_repository,
              result |-> None,
              raised |-> Some(<<"NotFoundError", "Approval",
                                request.approval_id>>)]
        ELSE
        LET resolved == _resolve(
                            approval_found[1],
                            IF request.approved THEN "approved" ELSE "rejected",
                            request.resolved_by, request.comment, utcnow)
            event_type == IF request.approved THEN "approval.approved"
                          ELSE "approval.rejected"
            published ==
                publish(events_repository, resolved.self.run_id, event_type,
                        Some([approval_id |-> resolved.self.id,
                              target |-> resolved.self.target,
                              resolved_by |-> request.resolved_by,
                              comment |-> request.comment]),
                        utcnow)
        IN  IF resolved.raised # None
            THEN [approvals |-> approvals, events |-> events_repository,
                  result |-> None, raised |-> resolved.raised]
            ELSE [approvals |-> ApprovalRepository_save(approvals,
                                                        resolved.self),
                  events |-> published.repository,
                  result |-> Some([approval_id |-> resolved.self.id,
                                   status |-> resolved.self.status,
                                   target |-> resolved.self.target]),
                  raised |-> None]

NoResolveCall ==
    [op |-> "none", request |-> None, result |-> None, raised |-> None]

\* use_case.execute(ResolveApprovalRequest(...))
Resolve(approval_id, approved, comment, resolved_by) ==
    LET request == [approval_id |-> approval_id, approved |-> approved,
                    comment |-> comment, resolved_by |-> resolved_by]
        r == ResolveApprovalUseCase_execute(approval_repository,
                                            event_repository, request, now)
    IN  /\ approval_repository' = r.approvals
        /\ event_repository' = r.events
        /\ resolve_call' = [op |-> "execute", request |-> Some(request),
                            result |-> r.result, raised |-> r.raised]
        /\ UNCHANGED <<run_repository, log_call>>
        /\ UNCHANGED <<permVars, ruleVars, runVars, taskVars, approvalVars, checkpointVars, agentVars, threadVars, resolverVars, thinVars, busVars, readerVars>>

\* repository.find_by_id(approval_id).expire() on a stored approval
Expire(approval_id) ==
    LET self == approval_repository._approvals[approval_id]
        expired == [self EXCEPT !.status = "expired",
                                !.resolved_at = Some(now)]
    IN  /\ approval_id \in DOMAIN approval_repository._approvals
        /\ approval_repository' =
              IF self.status # "pending" THEN approval_repository
              ELSE ApprovalRepository_save(approval_repository, expired)
        /\ resolve_call' =
              [op |-> "expire", request |-> Some([approval_id |-> approval_id]),
               result |-> None,
               raised |-> IF self.status # "pending"
                          THEN Some(<<"InvalidStateError",
                                      "Cannot expire approval in ",
                                      self.status, " status">>)
                          ELSE None]
        /\ UNCHANGED <<permVars, ruleVars, runVars, taskVars, approvalVars, eventVars, checkpointVars, agentVars, threadVars, resolverVars, thinVars, busVars, readerVars>>

(***************************************************************************)
(* The agent graph (agent/graph.py): START -> call_model, then, if the     *)
(* graph has tools and the model's message has tool calls, the tool node   *)
(* (langgraph's ToolNode, which runs every tool call of the last message)  *)
(* and call_model again, else END.  What the model answers is not the      *)
(* program's to decide: any tool calls of the tools bound to it.           *)
(***************************************************************************)
MaxModelCalls == 2
MaxToolCalls == 2
MaxExecuted == 3

\* The tools there are to give an agent, and the calls a model may make
AgentTools == {Read, Edit, Bash}
ToolCalls ==
    {[name |-> Read, args |-> Some([file_path |-> <<".","e","n","v">>])],
     [name |-> Edit, args |-> Some([file_path |-> <<"a",".","p","y">>,
                                    command |-> <<"l","s">>])],
     [name |-> Bash, args |-> Some([command |-> <<"n","p","m"," ","r","u","n"," ","t">>,
                                    path |-> <<"s","r","c","/","a">>])]}

\* create_agent(config, tools): the compiled graph, before it is invoked
create_agent(tools) ==
    [tools |-> tools, node |-> "START", tool_calls |-> <<>>, model_calls |-> 0]

\* should_continue: "tools" if the last message has tool calls, else END
should_continue(tool_calls) == IF tool_calls # <<>> THEN "tools" ELSE "END"

\* agent.invoke(...): the edge START -> call_model
Invoke ==
    /\ agent.node \in {"START", "END"}
    /\ agent' = [agent EXCEPT !.node = "call_model", !.tool_calls = <<>>]
    /\ UNCHANGED executed
    /\ UNCHANGED <<permVars, ruleVars, runVars, taskVars, approvalVars, eventVars, checkpointVars, resolveVars, threadVars, resolverVars, thinVars, busVars, readerVars>>

\* The node call_model and the edge that leaves it: the model's response is
\* added to the messages; with tools the graph goes where should_continue
\* says, without tools to END.
CallModel(response) ==
    /\ agent.node = "call_model"
    /\ agent.model_calls < MaxModelCalls
    /\ \A i \in 1..Len(response) : response[i].name \in agent.tools
    /\ agent' = [agent EXCEPT
                    !.tool_calls = response,
                    !.model_calls = @ + 1,
                    !.node = IF agent.tools # {} THEN should_continue(response)
                             ELSE "END"]
    /\ UNCHANGED executed
    /\ UNCHANGED <<permVars, ruleVars, runVars, taskVars, approvalVars, eventVars, checkpointVars, resolveVars, threadVars, resolverVars, thinVars, busVars, readerVars>>

\* The node tools, ToolNode(tools): every tool call of the last message is
\* run; then the edge back to call_model.
CallTools ==
    /\ agent.node = "tools"
    /\ Len(executed) + Len(agent.tool_calls) <= MaxExecuted
    /\ executed' = executed \o agent.tool_calls
    /\ agent' = [agent EXCEPT !.node = "call_model"]
    /\ UNCHANGED <<permVars, ruleVars, runVars, taskVars, approvalVars, eventVars, checkpointVars, resolveVars, threadVars, resolverVars, thinVars, busVars, readerVars>>

(***************************************************************************)
(* EventBus.publish run by several callers at once on one bus and one      *)
(* repository.  Neither the bus nor the repository takes a lock, so the    *)
(* callers' steps interleave: next_id reads _next_id (line 78), then       *)
(* `self._next_id += 1` (line 79) reads it again and writes the sum back;  *)
(* the event is created and appended by save.  The bus has no handlers.    *)
(***************************************************************************)
MaxPublishes == 2

Callers == {"caller-1", "caller-2"}
IdlePublisher ==
    [pc |-> "idle", run_id |-> "run-1", event_id |-> 0, loaded |-> 0,
     published |-> 0]

\* bus.publish(run_id, EventType.INFO) is called
publish_called(caller, run_id) ==
    /\ publishers[caller].pc = "idle"
    /\ publishers[caller].published < MaxPublishes
    /\ publishers' = [publishers EXCEPT ![caller].pc = "next_id",
                                        ![caller].run_id = run_id]
    /\ UNCHANGED <<permVars, ruleVars, runVars, taskVars, approvalVars, eventVars, checkpointVars, resolveVars, agentVars, resolverVars, thinVars, busVars, readerVars>>

\* next_id, line 78: event_id = self._next_id
next_id_read(caller) ==
    /\ publishers[caller].pc = "next_id"
    /\ publishers' = [publishers EXCEPT
                         ![caller].pc = "increment",
                         ![caller].event_id = event_repository._next_id]
    /\ UNCHANGED <<permVars, ruleVars, runVars, taskVars, approvalVars, eventVars, checkpointVars, resolveVars, agentVars, resolverVars, thinVars, busVars, readerVars>>

\* next_id, line 79, first half: the value of self._next_id is loaded
next_id_load(caller) ==
    /\ publishers[caller].pc = "increment"
    /\ publishers' = [publishers EXCEPT
                         ![caller].pc = "store",
                         ![caller].loaded = event_repository._next_id]
    /\ UNCHANGED <<permVars, ruleVars, runVars, taskVars, approvalVars, eventVars, checkpointVars, resolveVars, agentVars, resolverVars, thinVars, busVars, readerVars>>

\* next_id, line 79, second half: the value loaded, plus one, is stored
next_id_store(caller) ==
    /\ publishers[caller].pc = "store"
    /\ event_repository' =
          [event_repository EXCEPT !._next_id = publishers[caller].loaded + 1]
    /\ publishers' = [publishers EXCEPT ![caller].pc = "save"]
    /\ UNCHANGED <<run_repository, log_call>>
    /\ UNCHANGED <<permVars, ruleVars, runVars, taskVars, approvalVars, checkpointVars, resolveVars, agentVars, resolverVars, thinVars, busVars, readerVars>>

\* publish, lines 41-55: Event.create, repository.save, _notify, return
publish_save(caller) ==
    LET self == publishers[caller]
        event == Event_create(self.event_id, self.run_id, "info", None, now)
    IN  /\ self.pc = "save"
        /\ event_repository' = save(event_repository, event)
        /\ publishers' = [publishers EXCEPT ![caller].pc = "idle",
                                            ![caller].published = @ + 1]
        /\ UNCHANGED <<run_repository, log_call>>
        /\ UNCHANGED <<permVars, ruleVars, runVars, taskVars, approvalVars, checkpointVars, resolveVars, agentVars, resolverVars, thinVars, busVars, readerVars>>

(***************************************************************************)
(* ResolveApprovalUseCase.execute run by several callers at once for one   *)
(* stored approval.  find_by_id hands each caller the stored object; no    *)
(* lock is taken, so the callers' steps interleave: _resolve tests the     *)
(* status (and calls is_expired), then writes the resolution; execute      *)
(* saves, publishes, and builds its response from the object's status.     *)
(***************************************************************************)
RacedApproval == "approval-1"
IdleResolver ==
    [pc |-> "idle", approved |-> FALSE, resolved_by |-> "user", comment |-> "",
     result |-> None, raised |-> None]

\* use_case.execute(ResolveApprovalRequest(RacedApproval, ...)) is called
\* and finds the approval (lines 50-55)
execute_find(caller, approved, comment, resolved_by) ==
    /\ resolvers[caller].pc = "idle"
    /\ ApprovalRepository_find_by_id(approval_repository, RacedApproval) # None
    /\ resolvers' = [resolvers EXCEPT ![caller].pc = "_resolve",
                                      ![caller].approved = approved,
                                      ![caller].resolved_by = resolved_by,
                                      ![caller].comment = comment]
    /\ UNCHANGED <<permVars, ruleVars, runVars, taskVars, approvalVars, eventVars, checkpointVars, resolveVars, agentVars, threadVars, thinVars, busVars, readerVars>>

\* Approval._resolve, the two tests (lines 79-85): what _resolve would raise
\* on the object as it is now is raised; else the writes are still to come
_resolve_test(caller) ==
    LET self == approval_repository._approvals[RacedApproval]
        tested == _resolve(self, "approved", "", "", now)
    IN  /\ resolvers[caller].pc = "_resolve"
        /\ resolvers' = [resolvers EXCEPT
                            ![caller].pc = IF tested.raised # None THEN "done"
                                           ELSE "write",
                            ![caller].raised = tested.raised]
        /\ UNCHANGED <<permVars, ruleVars, runVars, taskVars, approvalVars, eventVars, checkpointVars, resolveVars, agentVars, threadVars, thinVars, busVars, readerVars>>

\* Approval._resolve, the writes (lines 87-90), on the stored object
_resolve_write(caller) ==
    LET self == approval_repository._approvals[RacedApproval]
        request == resolvers[caller]
    IN  /\ request.pc = "write"
        /\ approval_repository' =
              [approval_repository EXCEPT !._approvals[RacedApproval] =
                  [self EXCEPT
                      !.status = IF request.approved THEN "approved"
                                 ELSE "rejected",
                      !.resolved_at = Some(now),
                      !.resolved_by = Some(request.resolved_by),
                      !.comment = request.comment]]
        /\ resolvers' = [resolvers EXCEPT ![caller].pc = "save"]
        /\ UNCHANGED resolve_call
        /\ UNCHANGED <<permVars, ruleVars, runVars, taskVars, approvalVars, eventVars, checkpointVars, agentVars, threadVars, thinVars, busVars, readerVars>>

\* execute, lines 65-78: the object is saved and the event published
execute_save_publish(caller) ==
    LET self == approval_repository._approvals[RacedApproval]
        request == resolvers[caller]
        published ==
            publish(event_repository, self.run_id,
                    IF request.approved THEN "approval.approved"
                    ELSE "approval.rejected",
                    Some([approval_id |-> self.id,
                          target |-> self.target,
                          resolved_by |-> request.resolved_by,
                          comment |-> request.comment]),
                    now)
    IN  /\ request.pc = "save"
        /\ approval_repository' = ApprovalRepository_save(approval_repository, self)
        /\ event_repository' = published.repository
        /\ resolvers' = [resolvers EXCEPT ![caller].pc = "return"]
        /\ UNCHANGED <<run_repository, log_call, resolve_call>>
        /\ UNCHANGED <<permVars, ruleVars, runVars, taskVars, approvalVars, checkpointVars, agentVars, threadVars, thinVars, busVars, readerVars>>

\* execute, lines 80-84: the response, with the status the object has now
execute_return(caller) ==
    LET self == approval_repository._approvals[RacedApproval]
    IN  /\ resolvers[caller].pc = "return"
        /\ resolvers' = [resolvers EXCEPT
                            ![caller].pc = "done",
                            ![caller].result =
                                Some([approval_id |-> self.id,
                                      status |-> self.status,
                                      target |-> self.target])]
        /\ UNCHANGED <<permVars, ruleVars, runVars, taskVars, approvalVars, eventVars, checkpointVars, resolveVars, agentVars, threadVars, thinVars, busVars, readerVars>>

(***************************************************************************)
(* The pending-approval queue of ThinState (state/thin.py).                *)
(***************************************************************************)
\* The approval ids the queue is called with
PendingIds == {"apr-1", "apr-2", "apr-3", "apr-4"}

\* ThinState(run_id=...): the approvals of a new state
ThinState ==
    [approvals |-> [pending_ids |-> <<>>, pending_count |-> 0,
                    focus_approval_id |-> None]]

\* `x in list`
in(x, list) == \E i \in 1..Len(list) : list[i] = x

\* list.remove(x): the list without the first x
remove(list, x) ==
    LET i == CHOOSE i \in 1..Len(list) :
                 list[i] = x /\ \A j \in 1..(i - 1) : list[j] # x
    IN  SubSeq(list, 1, i - 1) \o SubSeq(list, i + 1, Len(list))

\* ThinState.add_pending_approval
add_pending_approval(self, approval_id) ==
    IF ~in(approval_id, self.approvals.pending_ids)
    THEN LET pending_ids == Append(self.approvals.pending_ids, approval_id)
         IN  [self EXCEPT
                 !.approvals.pending_ids = pending_ids,
                 !.approvals.pending_count = Len(pending_ids),
                 !.approvals.focus_approval_id =
                     IF @ = None THEN Some(approval_id) ELSE @]
    ELSE self

\* A remove_pending_approval that leaves the focus where it was
remove_keeping_focus(self, approval_id) ==
    IF in(approval_id, self.approvals.pending_ids)
    THEN LET pending_ids == remove(self.approvals.pending_ids, approval_id)
         IN  [self EXCEPT !.approvals.pending_ids = pending_ids,
                          !.approvals.pending_count = Len(pending_ids)]
    ELSE self

\* ThinState.remove_pending_approval
remove_pending_approval(self, approval_id) ==
    IF in(approval_id, self.approvals.pending_ids)
    THEN LET pending_ids == remove(self.approvals.pending_ids, approval_id)
         IN  [self EXCEPT
                 !.approvals.pending_ids = pending_ids,
                 !.approvals.pending_count = Len(pending_ids),
                 !.approvals.focus_approval_id =
                     IF @ = Some(approval_id)
                     THEN IF pending_ids # <<>> THEN Some(pending_ids[1])
                          ELSE None
                     ELSE @]
    ELSE self

NoThinCall == [op |-> "none", approval_id |-> "", before |-> ThinState.approvals]

\* state.add_pending_approval(approval_id)
AddPendingApproval(approval_id) ==
    /\ thin_state' = add_pending_approval(thin_state, approval_id)
    /\ thin_call' = [op |-> "add_pending_approval", approval_id |-> approval_id,
                     before |-> thin_state.approvals]
    /\ UNCHANGED <<permVars, ruleVars, runVars, taskVars, approvalVars, eventVars, checkpointVars, resolveVars, agentVars, threadVars, resolverVars, busVars, readerVars>>

\* state.remove_pending_approval(approval_id)
RemovePendingApproval(approval_id) ==
    /\ thin_state' = remove_pending_approval(thin_state, approval_id)
    /\ thin_call' = [op |-> "remove_pending_approval",
                     approval_id |-> approval_id,
                     before |-> thin_state.approvals]
    /\ UNCHANGED <<permVars, ruleVars, runVars, taskVars, approvalVars, eventVars, checkpointVars, resolveVars, agentVars, threadVars, resolverVars, busVars, readerVars>>

(***************************************************************************)
(* EventBus with handlers (adapters/messaging/event_bus.py).  publish      *)
(* takes the next id, saves the event and calls _notify, which walks the   *)
(* list of the event type's handlers and then the list of global handlers, *)
(* calling each handler in turn.  The walk is Python's `for x in list`: it *)
(* keeps a place in the live list, so a list changed by a handler is       *)
(* walked as changed.  A handler, while it runs, may call subscribe,       *)
(* subscribe_all, unsubscribe, unsubscribe_all and publish on the bus; a   *)
(* publish made by a handler runs to its end before the handler goes on.   *)
(***************************************************************************)
MaxBusEvents == 2
\* A handler calls the bus at most this many times each time it runs.
MaxHandlerCalls == 1

Handlers == {"handler-1", "handler-2"}

\* EventBus(event_repository): no handlers yet
EventBus == [_handlers |-> [event_type \in EventType |-> <<>>],
             _global_handlers |-> <<>>]

\* The handler that is running, if one is: the one the innermost publish
\* has called and that has not returned; else the code that owns the bus
Running == stack # <<>> /\ stack[Len(stack)].handler # None
MayCall ==
    stack = <<>> \/ (Running /\ stack[Len(stack)].calls < MaxHandlerCalls)

\* The stack after a call on the bus: a running handler has made a call
Called ==
    IF stack = <<>> THEN stack
    ELSE [stack EXCEPT ![Len(stack)].calls = @ + 1]

\* list.remove(x) for an x that is in the list
list_remove(list, x) ==
    LET i == CHOOSE i \in 1..Len(list) :
                 list[i] = x /\ \A j \in 1..(i - 1) : list[j] # x
    IN  SubSeq(list, 1, i - 1) \o SubSeq(list, i + 1, Len(list))

\* EventBus.subscribe
subscribe(event_type, handler) ==
    /\ MayCall
    /\ bus' = IF \A i \in 1..Len(bus._handlers[event_type]) :
                     bus._handlers[event_type][i] # handler
              THEN [bus EXCEPT !._handlers[event_type] = Append(@, handler)]
              ELSE bus
    /\ stack' = Called
    /\ UNCHANGED <<delivered, publications>>
    /\ UNCHANGED <<permVars, ruleVars, runVars, taskVars, approvalVars, eventVars, checkpointVars, resolveVars, agentVars, threadVars, resolverVars, thinVars, readerVars>>

\* EventBus.subscribe_all
subscribe_all(handler) ==
    /\ MayCall
    /\ bus' = IF \A i \in 1..Len(bus._global_handlers) :
                     bus._global_handlers[i] # handler
              THEN [bus EXCEPT !._global_handlers = Append(@, handler)]
              ELSE bus
    /\ stack' = Called
    /\ UNCHANGED <<delivered, publications>>
    /\ UNCHANGED <<permVars, ruleVars, runVars, taskVars, approvalVars, eventVars, checkpointVars, resolveVars, agentVars, threadVars, resolverVars, thinVars, readerVars>>

\* EventBus.unsubscribe
unsubscribe(event_type, handler) ==
    /\ MayCall
    /\ bus' = IF \E i \in 1..Len(bus._handlers[event_type]) :
                     bus._handlers[event_type][i] = handler
              THEN [bus EXCEPT !._handlers[event_type] =
                                   list_remove(@, handler)]
              ELSE bus
    /\ stack' = Called
    /\ UNCHANGED <<delivered, publications>>
    /\ UNCHANGED <<permVars, ruleVars, runVars, taskVars, approvalVars, eventVars, checkpointVars, resolveVars, agentVars, threadVars, resolverVars, thinVars, readerVars>>

\* EventBus.unsubscribe_all
unsubscribe_all(handler) ==
    /\ MayCall
    /\ bus' = IF \E i \in 1..Len(bus._global_handlers) :
                     bus._global_handlers[i] = handler
              THEN [bus EXCEPT !._global_handlers = list_remove(@, handler)]
              ELSE bus
    /\ stack' = Called
    /\ UNCHANGED <<delivered, publications>>
    /\ UNCHANGED <<permVars, ruleVars, runVars, taskVars, approvalVars, eventVars, checkpointVars, resolveVars, agentVars, threadVars, resolverVars, thinVars, readerVars>>

\* The handlers subscribed to a type or globally
Subscribed(event_type) ==
    {bus._handlers[event_type][i] : i \in 1..Len(bus._handlers[event_type])}
        \cup {bus._global_handlers[i] : i \in 1..Len(bus._global_handlers)}

\* EventBus.publish up to its call of _notify (lines 27-53): the id is
\* taken, the event created and saved, and _notify starts on the list of
\* the type's handlers
Bus_publish(run_id, event_type) ==
    LET made == publish(event_repository, run_id, event_type, None, now)
    IN  /\ MayCall
        /\ Len(publications) < MaxBusEvents
        /\ event_repository' = made.repository
        /\ stack' = Append(Called, [event |-> made.event, loop |-> "_handlers",
                                    place |-> 0, handler |-> None,
                                    calls |-> 0])
        /\ publications' = Append(publications,
                                  [event |-> made.event,
                                   subscribed |-> Subscribed(event_type)])
        /\ UNCHANGED <<bus, delivered, run_repository, log_call>>
        /\ UNCHANGED <<permVars, ruleVars, runVars, taskVars, approvalVars, checkpointVars, resolveVars, agentVars, threadVars, resolverVars, thinVars, readerVars>>

\* One turn of a loop of _notify (lines 94-99): the next handler of the
\* list, as the list is now, is called with the event; when the list has
\* no next handler the first loop gives way to the second, and the second
\* to the return of _notify and of publish.
_notify ==
    LET top == stack[Len(stack)]
        list == IF top.loop = "_handlers" THEN bus._handlers[top.event.type]
                ELSE bus._global_handlers
    IN  /\ stack # <<>>
        /\ top.handler = None
        /\ IF top.place < Len(list)
           THEN /\ stack' = [stack EXCEPT
                                ![Len(stack)].place = @ + 1,
                                ![Len(stack)].handler =
                                    Some(list[top.place + 1]),
                                ![Len(stack)].calls = 0]
                /\ delivered' = Append(delivered,
                                       [handler |-> list[top.place + 1],
                                        event_id |-> top.event.id])
           ELSE /\ stack' = IF top.loop = "_handlers"
                            THEN [stack EXCEPT
                                     ![Len(stack)].loop = "_global_handlers",
                                     ![Len(stack)].place = 0]
                            ELSE SubSeq(stack, 1, Len(stack) - 1)
                /\ UNCHANGED delivered
        /\ UNCHANGED <<bus, publications>>
        /\ UNCHANGED <<permVars, ruleVars, runVars, taskVars, approvalVars, eventVars, checkpointVars, resolveVars, agentVars, threadVars, resolverVars, thinVars, readerVars>>

\* The handler that is running returns to _notify
handler_returns ==
    /\ Running
    /\ stack' = [stack EXCEPT ![Len(stack)].handler = None]
    /\ UNCHANGED <<bus, delivered, publications>>
    /\ UNCHANGED <<permVars, ruleVars, runVars, taskVars, approvalVars, eventVars, checkpointVars, resolveVars, agentVars, threadVars, resolverVars, thinVars, readerVars>>

(***************************************************************************)
(* A reader paging through the timeline of a run: it starts without a      *)
(* cursor and calls GetTimelineUseCase.execute again and again, each time  *)
(* with since_event_id set to the latest_event_id of the response before.  *)
(***************************************************************************)
MaxPolls == 4

ReaderRun == "run-1"
NewReader ==
    [cursor |-> None, received |-> <<>>, polls |-> 0, has_more |-> FALSE,
     logged |-> 0]

\* use_case.execute(GetTimelineRequest(ReaderRun, reader's cursor, limit)):
\* the reader takes the events of the response and, as its next cursor, the
\* response's latest_event_id
ReaderPoll(limit) ==
    LET request == [run_id |-> ReaderRun, since_event_id |-> reader.cursor,
                    limit |-> limit]
        response == execute(run_repository, event_repository, request).result
    IN  /\ reader.polls < MaxPolls
        /\ log_call = NoLogCall
        /\ reader' = [cursor |-> response.latest_event_id,
                      received |->
                          [i \in 1..(Len(reader.received)
                                        + Len(response.events)) |->
                              IF i <= Len(reader.received)
                              THEN reader.received[i]
                              ELSE response.events[i - Len(reader.received)].id],
                      polls |-> reader.polls + 1,
                      has_more |-> response.has_more,
                      logged |-> Len(event_repository._events)]
        /\ UNCHANGED <<permVars, ruleVars, runVars, taskVars, approvalVars, eventVars, checkpointVars, resolveVars, agentVars, threadVars, resolverVars, thinVars, busVars>>

(***************************************************************************)
(* Specifications                                                          *)
(***************************************************************************)
\* The permission engine: a manager built from any of the inputs.
Init ==
    /\ ctor \in [mode : ModeStrings,
                 allow_rules : SeqUpTo(RuleStrings, MaxRules),
                 deny_rules : SeqUpTo(RuleStrings, MaxRules)]
    /\ Len(ctor.allow_rules) + Len(ctor.deny_rules) <= MaxRules
    /\ manager = PermissionManager(ctor.mode, ctor.allow_rules, ctor.deny_rules)
    /\ call = NoCall
    /\ permission_rule = parse(Edit)
    /\ rule_call = NoRuleCall
    /\ now = 0
    /\ run = create(0)
    /\ run_call = [op |-> "create", before |-> create(0), raised |-> None]
    /\ task = Task_create(0)
    /\ task_call = [op |-> "create", before |-> Task_create(0), raised |-> None]
    /\ approval = Approval_create("file_edit", <<>>, 0)
    /\ approval_call = [op |-> "create", before |-> Approval_create("file_edit", <<>>, 0),
                      at |-> 0, raised |-> None]
    /\ event_repository = InMemoryEventRepository
    /\ run_repository = KnownRuns
    /\ log_call = NoLogCall
    /\ fs = [dir |-> TRUE, files |-> [path \in Paths |-> Some(<<"a">>)], dirs |-> {}]
    /\ checkpoint_manager = FileCheckpointManager(0)
    /\ storage_dir = <<>>
    /\ uuid4 = 0
    /\ origin = [epoch |-> [path \in Paths |-> Untracked], checkpoints |-> <<>>]
    /\ checkpoint_call = NoCheckpointCall
    /\ approval_repository = InMemoryApprovalRepository
    /\ resolve_call = NoResolveCall
    /\ agent = create_agent({})
    /\ executed = <<>>
    /\ publishers = [caller \in Callers |-> IdlePublisher]
    /\ resolvers = [caller \in Callers |-> IdleResolver]
    /\ thin_state = ThinState
    /\ thin_call = NoThinCall
    /\ bus = EventBus
    /\ stack = <<>>
    /\ delivered = <<>>
    /\ publications = <<>>
    /\ reader = NewReader

Next ==
    \/ \E tool_name \in ToolNames, args \in ArgsUniverse : Check(tool_name, args)
    \/ \E tool_name \in ToolNames : IsSafeTool(tool_name)
    \/ \E tool_name \in ToolNames : IsWriteTool(tool_name)
    \/ \E tool_name \in ToolNames : IsExecTool(tool_name)
    \/ Return

Spec == Init /\ [][Next]_vars

\* A rule on its own.
InitRule ==
    /\ ctor = [mode |-> "default", allow_rules |-> <<>>, deny_rules |-> <<>>]
    /\ manager = PermissionManager(ctor.mode, ctor.allow_rules, ctor.deny_rules)
    /\ call = NoCall
    /\ \E pattern \in SeqUpTo(PatternChars, MaxPatternLen) \ {<<>>} :
          permission_rule = parse(Edit \o <<"(">> \o pattern \o <<")">>)
    /\ rule_call = NoRuleCall
    /\ now = 0
    /\ run = create(0)
    /\ run_call = [op |-> "create", before |-> create(0), raised |-> None]
    /\ task = Task_create(0)
    /\ task_call = [op |-> "create", before |-> Task_create(0), raised |-> None]
    /\ approval = Approval_create("file_edit", <<>>, 0)
    /\ approval_call = [op |-> "create", before |-> Approval_create("file_edit", <<>>, 0),
                      at |-> 0, raised |-> None]
    /\ event_repository = InMemoryEventRepository
    /\ run_repository = KnownRuns
    /\ log_call = NoLogCall
    /\ fs = [dir |-> TRUE, files |-> [path \in Paths |-> Some(<<"a">>)], dirs |-> {}]
    /\ checkpoint_manager = FileCheckpointManager(0)
    /\ storage_dir = <<>>
    /\ uuid4 = 0
    /\ origin = [epoch |-> [path \in Paths |-> Untracked], checkpoints |-> <<>>]
    /\ checkpoint_call = NoCheckpointCall
    /\ approval_repository = InMemoryApprovalRepository
    /\ resolve_call = NoResolveCall
    /\ agent = create_agent({})
    /\ executed = <<>>
    /\ publishers = [caller \in Callers |-> IdlePublisher]
    /\ resolvers = [caller \in Callers |-> IdleResolver]
    /\ thin_state = ThinState
    /\ thin_call = NoThinCall
    /\ bus = EventBus
    /\ stack = <<>>
    /\ delivered = <<>>
    /\ publications = <<>>
    /\ reader = NewReader

NextRule ==
    \/ \E value \in SeqUpTo(ValueChars, MaxValueLen) :
          Matches(Edit, [file_path |-> value])
    \/ MatchesReturn

SpecRule == InitRule /\ [][NextRule]_vars

\* A Run on its own.
InitRun ==
    /\ ctor = [mode |-> "default", allow_rules |-> <<>>, deny_rules |-> <<>>]
    /\ manager = PermissionManager(ctor.mode, ctor.allow_rules, ctor.deny_rules)
    /\ call = NoCall
    /\ permission_rule = parse(Edit)
    /\ rule_call = NoRuleCall
    /\ now = 0
    /\ run = create(0)
    /\ run_call = [op |-> "create", before |-> create(0), raised |-> None]
    /\ task = Task_create(0)
    /\ task_call = [op |-> "create", before |-> Task_create(0), raised |-> None]
    /\ approval = Approval_create("file_edit", <<>>, 0)
    /\ approval_call = [op |-> "create", before |-> Approval_create("file_edit", <<>>, 0),
                      at |-> 0, raised |-> None]
    /\ event_repository = InMemoryEventRepository
    /\ run_repository = KnownRuns
    /\ log_call = NoLogCall
    /\ fs = [dir |-> TRUE, files |-> [path \in Paths |-> Some(<<"a">>)], dirs |-> {}]
    /\ checkpoint_manager = FileCheckpointManager(0)
    /\ storage_dir = <<>>
    /\ uuid4 = 0
    /\ origin = [epoch |-> [path \in Paths |-> Untracked], checkpoints |-> <<>>]
    /\ checkpoint_call = NoCheckpointCall
    /\ approval_repository = InMemoryApprovalRepository
    /\ resolve_call = NoResolveCall
    /\ agent = create_agent({})
    /\ executed = <<>>
    /\ publishers = [caller \in Callers |-> IdlePublisher]
    /\ resolvers = [caller \in Callers |-> IdleResolver]
    /\ thin_state = ThinState
    /\ thin_call = NoThinCall
    /\ bus = EventBus
    /\ stack = <<>>
    /\ delivered = <<>>
    /\ publications = <<>>
    /\ reader = NewReader

NextRun == start \/ complete \/ fail \/ cancel \/ Tick

SpecRun == InitRun /\ [][NextRun]_vars

\* A Task on its own.
InitTask ==
    /\ ctor = [mode |-> "default", allow_rules |-> <<>>, deny_rules |-> <<>>]
    /\ manager = PermissionManager(ctor.mode, ctor.allow_rules, ctor.deny_rules)
    /\ call = NoCall
    /\ permission_rule = parse(Edit)
    /\ rule_call = NoRuleCall
    /\ now = 0
    /\ run = create(0)
    /\ run_call = [op |-> "create", before |-> create(0), raised |-> None]
    /\ task = Task_create(0)
    /\ task_call = [op |-> "create", before |-> Task_create(0), raised |-> None]
    /\ approval = Approval_create("file_edit", <<>>, 0)
    /\ approval_call = [op |-> "create", before |-> Approval_create("file_edit", <<>>, 0),
                      at |-> 0, raised |-> None]
    /\ event_repository = InMemoryEventRepository
    /\ run_repository = KnownRuns
    /\ log_call = NoLogCall
    /\ fs = [dir |-> TRUE, files |-> [path \in Paths |-> Some(<<"a">>)], dirs |-> {}]
    /\ checkpoint_manager = FileCheckpointManager(0)
    /\ storage_dir = <<>>
    /\ uuid4 = 0
    /\ origin = [epoch |-> [path \in Paths |-> Untracked], checkpoints |-> <<>>]
    /\ checkpoint_call = NoCheckpointCall
    /\ approval_repository = InMemoryApprovalRepository
    /\ resolve_call = NoResolveCall
    /\ agent = create_agent({})
    /\ executed = <<>>
    /\ publishers = [caller \in Callers |-> IdlePublisher]
    /\ resolvers = [caller \in Callers |-> IdleResolver]
    /\ thin_state = ThinState
    /\ thin_call = NoThinCall
    /\ bus = EventBus
    /\ stack = <<>>
    /\ delivered = <<>>
    /\ publications = <<>>
    /\ reader = NewReader

NextTask ==
    \/ \E worker_id \in WorkerIds : Task_assign(worker_id)
    \/ \E reason \in Reasons : Task_block(reason)
    \/ Task_unblock
    \/ \E output_refs \in OutputRefs : Task_complete(output_refs)
    \/ \E error_message \in ErrorMessages : Task_fail(error_message)
    \/ Tick

SpecTask == InitTask /\ [][NextTask]_vars

\* An Approval on its own: created at time 0, with or without an expiry time.
InitApproval ==
    /\ ctor = [mode |-> "default", allow_rules |-> <<>>, deny_rules |-> <<>>]
    /\ manager = PermissionManager(ctor.mode, ctor.allow_rules, ctor.deny_rules)
    /\ call = NoCall
    /\ permission_rule = parse(Edit)
    /\ rule_call = NoRuleCall
    /\ now = 0
    /\ run = create(0)
    /\ run_call = [op |-> "create", before |-> create(0), raised |-> None]
    /\ task = Task_create(0)
    /\ task_call = [op |-> "create", before |-> Task_create(0), raised |-> None]
    /\ \E expires_at \in {None} \cup {Some(time) : time \in 0..MaxTime} :
          approval = [Approval_create("file_edit", <<>>, 0)
                        EXCEPT !.expires_at = expires_at]
    /\ approval_call = [op |-> "create", before |-> approval,
                      at |-> 0, raised |-> None]
    /\ event_repository = InMemoryEventRepository
    /\ run_repository = KnownRuns
    /\ log_call = NoLogCall
    /\ fs = [dir |-> TRUE, files |-> [path \in Paths |-> Some(<<"a">>)], dirs |-> {}]
    /\ checkpoint_manager = FileCheckpointManager(0)
    /\ storage_dir = <<>>
    /\ uuid4 = 0
    /\ origin = [epoch |-> [path \in Paths |-> Untracked], checkpoints |-> <<>>]
    /\ checkpoint_call = NoCheckpointCall
    /\ approval_repository = InMemoryApprovalRepository
    /\ resolve_call = NoResolveCall
    /\ agent = create_agent({})
    /\ executed = <<>>
    /\ publishers = [caller \in Callers |-> IdlePublisher]
    /\ resolvers = [caller \in Callers |-> IdleResolver]
    /\ thin_state = ThinState
    /\ thin_call = NoThinCall
    /\ bus = EventBus
    /\ stack = <<>>
    /\ delivered = <<>>
    /\ publications = <<>>
    /\ reader = NewReader

NextApproval ==
    \/ \E resolved_by \in ResolvedBy, comment \in Comments :
          approve(resolved_by, comment)
    \/ \E resolved_by \in ResolvedBy, comment \in Comments :
          reject(resolved_by, comment)
    \/ expire
    \/ Tick

SpecApproval == InitApproval /\ [][NextApproval]_vars

\* Approval.create on every type and target: the constructor has run,
\* assess_risk follows.
InitRisk ==
    /\ ctor = [mode |-> "default", allow_rules |-> <<>>, deny_rules |-> <<>>]
    /\ manager = PermissionManager(ctor.mode, ctor.allow_rules, ctor.deny_rules)
    /\ call = NoCall
    /\ permission_rule = parse(Edit)
    /\ rule_call = NoRuleCall
    /\ now = 0
    /\ run = create(0)
    /\ run_call = [op |-> "create", before |-> create(0), raised |-> None]
    /\ task = Task_create(0)
    /\ task_call = [op |-> "create", before |-> Task_create(0), raised |-> None]
    /\ \E approval_type \in ApprovalType, target \in Targets(MaxTargetPieces) :
          approval = Approval_init(approval_type, target, 0)
    /\ approval_call = [op |-> "__init__", before |-> approval,
                        at |-> 0, raised |-> None]
    /\ event_repository = InMemoryEventRepository
    /\ run_repository = KnownRuns
    /\ log_call = NoLogCall
    /\ fs = [dir |-> TRUE, files |-> [path \in Paths |-> Some(<<"a">>)], dirs |-> {}]
    /\ checkpoint_manager = FileCheckpointManager(0)
    /\ storage_dir = <<>>
    /\ uuid4 = 0
    /\ origin = [epoch |-> [path \in Paths |-> Untracked], checkpoints |-> <<>>]
    /\ checkpoint_call = NoCheckpointCall
    /\ approval_repository = InMemoryApprovalRepository
    /\ resolve_call = NoResolveCall
    /\ agent = create_agent({})
    /\ executed = <<>>
    /\ publishers = [caller \in Callers |-> IdlePublisher]
    /\ resolvers = [caller \in Callers |-> IdleResolver]
    /\ thin_state = ThinState
    /\ thin_call = NoThinCall
    /\ bus = EventBus
    /\ stack = <<>>
    /\ delivered = <<>>
    /\ publications = <<>>
    /\ reader = NewReader

NextRisk == AssessRisk

SpecRisk == InitRisk /\ [][NextRisk]_vars

\* A bus with its repository: nothing but publish is called.
InitBus ==
    /\ ctor = [mode |-> "default", allow_rules |-> <<>>, deny_rules |-> <<>>]
    /\ manager = PermissionManager(ctor.mode, ctor.allow_rules, ctor.deny_rules)
    /\ call = NoCall
    /\ permission_rule = parse(Edit)
    /\ rule_call = NoRuleCall
    /\ now = 0
    /\ run = create(0)
    /\ run_call = [op |-> "create", before |-> create(0), raised |-> None]
    /\ task = Task_create(0)
    /\ task_call = [op |-> "create", before |-> Task_create(0), raised |-> None]
    /\ approval = Approval_create("file_edit", <<>>, 0)
    /\ approval_call = [op |-> "create", before |-> Approval_create("file_edit", <<>>, 0),
                      at |-> 0, raised |-> None]
    /\ event_repository = InMemoryEventRepository
    /\ run_repository = KnownRuns
    /\ log_call = NoLogCall
    /\ fs = [dir |-> TRUE, files |-> [path \in Paths |-> Some(<<"a">>)], dirs |-> {}]
    /\ checkpoint_manager = FileCheckpointManager(0)
    /\ storage_dir = <<>>
    /\ uuid4 = 0
    /\ origin = [epoch |-> [path \in Paths |-> Untracked], checkpoints |-> <<>>]
    /\ checkpoint_call = NoCheckpointCall
    /\ approval_repository = InMemoryApprovalRepository
    /\ resolve_call = NoResolveCall
    /\ agent = create_agent({})
    /\ executed = <<>>
    /\ publishers = [caller \in Callers |-> IdlePublisher]
    /\ resolvers = [caller \in Callers |-> IdleResolver]
    /\ thin_state = ThinState
    /\ thin_call = NoThinCall
    /\ bus = EventBus
    /\ stack = <<>>
    /\ delivered = <<>>
    /\ publications = <<>>
    /\ reader = NewReader

NextBus ==
    \/ \E run_id \in KnownRuns, event_type \in EventType, data \in EventData :
          Publish(run_id, event_type, data)
    \/ LogReturn

SpecBus == InitBus /\ [][NextBus]_vars

\* The event log: the operations of the repository and publish.
InitLog ==
    /\ ctor = [mode |-> "default", allow_rules |-> <<>>, deny_rules |-> <<>>]
    /\ manager = PermissionManager(ctor.mode, ctor.allow_rules, ctor.deny_rules)
    /\ call = NoCall
    /\ permission_rule = parse(Edit)
    /\ rule_call = NoRuleCall
    /\ now = 0
    /\ run = create(0)
    /\ run_call = [op |-> "create", before |-> create(0), raised |-> None]
    /\ task = Task_create(0)
    /\ task_call = [op |-> "create", before |-> Task_create(0), raised |-> None]
    /\ approval = Approval_create("file_edit", <<>>, 0)
    /\ approval_call = [op |-> "create", before |-> Approval_create("file_edit", <<>>, 0),
                      at |-> 0, raised |-> None]
    /\ event_repository = InMemoryEventRepository
    /\ run_repository = KnownRuns
    /\ log_call = NoLogCall
    /\ fs = [dir |-> TRUE, files |-> [path \in Paths |-> Some(<<"a">>)], dirs |-> {}]
    /\ checkpoint_manager = FileCheckpointManager(0)
    /\ storage_dir = <<>>
    /\ uuid4 = 0
    /\ origin = [epoch |-> [path \in Paths |-> Untracked], checkpoints |-> <<>>]
    /\ checkpoint_call = NoCheckpointCall
    /\ approval_repository = InMemoryApprovalRepository
    /\ resolve_call = NoResolveCall
    /\ agent = create_agent({})
    /\ executed = <<>>
    /\ publishers = [caller \in Callers |-> IdlePublisher]
    /\ resolvers = [caller \in Callers |-> IdleResolver]
    /\ thin_state = ThinState
    /\ thin_call = NoThinCall
    /\ bus = EventBus
    /\ stack = <<>>
    /\ delivered = <<>>
    /\ publications = <<>>
    /\ reader = NewReader

NextLog ==
    \/ \E run_id \in KnownRuns, data \in EventData :
          Publish(run_id, "run.started", data)
    \/ \E run_id \in KnownRuns : Save(1, run_id)
    \/ NextId
    \/ Clear
    \/ \E event_id \in 1..MaxEvents : FindById(event_id)
    \/ \E run_id \in KnownRuns, since_id \in {None, Some(1)}, limit \in Limits :
          FindByRun(run_id, since_id, limit)
    \/ \E run_id \in KnownRuns, event_type \in EventType, limit \in Limits :
          FindByType(run_id, event_type, limit)
    \/ \E run_id \in KnownRuns : GetLatestId(run_id)
    \/ \E run_id \in KnownRuns : CountByRun(run_id)
    \/ LogReturn

SpecLog == InitLog /\ [][NextLog]_vars

\* Reading the log: events saved under any identities, in any order, then
\* find_by_run and the timeline use case.
InitQuery ==
    /\ ctor = [mode |-> "default", allow_rules |-> <<>>, deny_rules |-> <<>>]
    /\ manager = PermissionManager(ctor.mode, ctor.allow_rules, ctor.deny_rules)
    /\ call = NoCall
    /\ permission_rule = parse(Edit)
    /\ rule_call = NoRuleCall
    /\ now = 0
    /\ run = create(0)
    /\ run_call = [op |-> "create", before |-> create(0), raised |-> None]
    /\ task = Task_create(0)
    /\ task_call = [op |-> "create", before |-> Task_create(0), raised |-> None]
    /\ approval = Approval_create("file_edit", <<>>, 0)
    /\ approval_call = [op |-> "create", before |-> Approval_create("file_edit", <<>>, 0),
                      at |-> 0, raised |-> None]
    /\ event_repository = InMemoryEventRepository
    /\ run_repository = KnownRuns
    /\ log_call = NoLogCall
    /\ fs = [dir |-> TRUE, files |-> [path \in Paths |-> Some(<<"a">>)], dirs |-> {}]
    /\ checkpoint_manager = FileCheckpointManager(0)
    /\ storage_dir = <<>>
    /\ uuid4 = 0
    /\ origin = [epoch |-> [path \in Paths |-> Untracked], checkpoints |-> <<>>]
    /\ checkpoint_call = NoCheckpointCall
    /\ approval_repository = InMemoryApprovalRepository
    /\ resolve_call = NoResolveCall
    /\ agent = create_agent({})
    /\ executed = <<>>
    /\ publishers = [caller \in Callers |-> IdlePublisher]
    /\ resolvers = [caller \in Callers |-> IdleResolver]
    /\ thin_state = ThinState
    /\ thin_call = NoThinCall
    /\ bus = EventBus
    /\ stack = <<>>
    /\ delivered = <<>>
    /\ publications = <<>>
    /\ reader = NewReader

NextQuery ==
    \/ \E event_id \in 1..MaxEvents, run_id \in KnownRuns :
          Save(event_id, run_id)
    \/ \E run_id \in KnownRuns, since_id \in SinceIds, limit \in Limits :
          FindByRun(run_id, since_id, limit)
    \/ \E run_id \in RunIds, since_id \in SinceIds, limit \in Limits :
          Execute(run_id, since_id, limit)
    \/ LogReturn

SpecQuery == InitQuery /\ [][NextQuery]_vars

\* A checkpoint manager and the files it looks after: each file is there,
\* with any content, or not.
InitCheckpoint ==
    /\ ctor = [mode |-> "default", allow_rules |-> <<>>, deny_rules |-> <<>>]
    /\ manager = PermissionManager(ctor.mode, ctor.allow_rules, ctor.deny_rules)
    /\ call = NoCall
    /\ permission_rule = parse(Edit)
    /\ rule_call = NoRuleCall
    /\ now = 0
    /\ run = create(0)
    /\ run_call = [op |-> "create", before |-> create(0), raised |-> None]
    /\ task = Task_create(0)
    /\ task_call = [op |-> "create", before |-> Task_create(0), raised |-> None]
    /\ approval = Approval_create("file_edit", <<>>, 0)
    /\ approval_call = [op |-> "create", before |-> Approval_create("file_edit", <<>>, 0),
                      at |-> 0, raised |-> None]
    /\ event_repository = InMemoryEventRepository
    /\ run_repository = KnownRuns
    /\ log_call = NoLogCall
    /\ \E held \in {None} \cup {Some(bytes) : bytes \in FileContents} :
          fs = [dir |-> TRUE,
                files |-> [path \in Paths |-> IF path \in OneFile THEN held ELSE None],
                dirs |-> {}]
    /\ checkpoint_manager = FileCheckpointManager(0)
    /\ storage_dir = <<>>
    /\ uuid4 = 0
    /\ origin = [epoch |-> [path \in Paths |-> Untracked], checkpoints |-> <<>>]
    /\ checkpoint_call = NoCheckpointCall
    /\ approval_repository = InMemoryApprovalRepository
    /\ resolve_call = NoResolveCall
    /\ agent = create_agent({})
    /\ executed = <<>>
    /\ publishers = [caller \in Callers |-> IdlePublisher]
    /\ resolvers = [caller \in Callers |-> IdleResolver]
    /\ thin_state = ThinState
    /\ thin_call = NoThinCall
    /\ bus = EventBus
    /\ stack = <<>>
    /\ delivered = <<>>
    /\ publications = <<>>
    /\ reader = NewReader

NextCheckpoint ==
    \/ \E file_path \in FileArgs : TrackFile(file_path)
    \/ \E message \in Messages, checkpoint_id \in 1..MaxCheckpoints :
          CheckpointCreate(message, checkpoint_id)
    \/ \E checkpoint_id \in 0..MaxCheckpoints : Restore(checkpoint_id)
    \/ ClearTracked
    \/ \E path \in OneFile, content \in FileContents : WriteFile(path, content)
    \/ \E path \in OneFile : DeleteFile(path)
    \/ RemoveDir

SpecCheckpoint == InitCheckpoint /\ [][NextCheckpoint]_vars

\* Two files and a checkpoint manager; a directory may come to stand where a
\* file was, and restore cannot write there.
InitRestore ==
    /\ ctor = [mode |-> "default", allow_rules |-> <<>>, deny_rules |-> <<>>]
    /\ manager = PermissionManager(ctor.mode, ctor.allow_rules, ctor.deny_rules)
    /\ call = NoCall
    /\ permission_rule = parse(Edit)
    /\ rule_call = NoRuleCall
    /\ now = 0
    /\ run = create(0)
    /\ run_call = [op |-> "create", before |-> create(0), raised |-> None]
    /\ task = Task_create(0)
    /\ task_call = [op |-> "create", before |-> Task_create(0), raised |-> None]
    /\ approval = Approval_create("file_edit", <<>>, 0)
    /\ approval_call = [op |-> "create", before |-> Approval_create("file_edit", <<>>, 0),
                      at |-> 0, raised |-> None]
    /\ event_repository = InMemoryEventRepository
    /\ run_repository = KnownRuns
    /\ log_call = NoLogCall
    /\ fs = [dir |-> TRUE, files |-> [path \in Paths |-> Some(<<"a">>)], dirs |-> {}]
    /\ checkpoint_manager = FileCheckpointManager(0)
    /\ storage_dir = <<>>
    /\ uuid4 = 0
    /\ origin = [epoch |-> [path \in Paths |-> Untracked], checkpoints |-> <<>>]
    /\ checkpoint_call = NoCheckpointCall
    /\ approval_repository = InMemoryApprovalRepository
    /\ resolve_call = NoResolveCall
    /\ agent = create_agent({})
    /\ executed = <<>>
    /\ publishers = [caller \in Callers |-> IdlePublisher]
    /\ resolvers = [caller \in Callers |-> IdleResolver]
    /\ thin_state = ThinState
    /\ thin_call = NoThinCall
    /\ bus = EventBus
    /\ stack = <<>>
    /\ delivered = <<>>
    /\ publications = <<>>
    /\ reader = NewReader

NextRestore ==
    \/ \E file_path \in Paths : TrackFile(file_path)
    \/ \E message \in Messages, checkpoint_id \in 1..MaxRestorable :
          CheckpointCreate(message, checkpoint_id)
    \/ \E checkpoint_id \in 0..MaxRestorable : Restore(checkpoint_id)
    \/ \E path \in Paths, content \in {<<"b">>} : WriteFile(path, content)
    \/ \E path \in Paths : DeleteFile(path)
    \/ \E path \in Paths : MakeDir(path)
    \/ RemoveDir

SpecRestore == InitRestore /\ [][NextRestore]_vars

\* A checkpoint manager whose checkpoints are listed and pruned as time
\* passes.
InitPrune ==
    /\ ctor = [mode |-> "default", allow_rules |-> <<>>, deny_rules |-> <<>>]
    /\ manager = PermissionManager(ctor.mode, ctor.allow_rules, ctor.deny_rules)
    /\ call = NoCall
    /\ permission_rule = parse(Edit)
    /\ rule_call = NoRuleCall
    /\ now = 0
    /\ run = create(0)
    /\ run_call = [op |-> "create", before |-> create(0), raised |-> None]
    /\ task = Task_create(0)
    /\ task_call = [op |-> "create", before |-> Task_create(0), raised |-> None]
    /\ approval = Approval_create("file_edit", <<>>, 0)
    /\ approval_call = [op |-> "create", before |-> Approval_create("file_edit", <<>>, 0),
                      at |-> 0, raised |-> None]
    /\ event_repository = InMemoryEventRepository
    /\ run_repository = KnownRuns
    /\ log_call = NoLogCall
    /\ fs = [dir |-> TRUE, files |-> [path \in Paths |-> Some(<<"a">>)], dirs |-> {}]
    /\ checkpoint_manager = FileCheckpointManager(0)
    /\ storage_dir = <<>>
    /\ uuid4 = 0
    /\ origin = [epoch |-> [path \in Paths |-> Untracked], checkpoints |-> <<>>]
    /\ checkpoint_call = NoCheckpointCall
    /\ approval_repository = InMemoryApprovalRepository
    /\ resolve_call = NoResolveCall
    /\ agent = create_agent({})
    /\ executed = <<>>
    /\ publishers = [caller \in Callers |-> IdlePublisher]
    /\ resolvers = [caller \in Callers |-> IdleResolver]
    /\ thin_state = ThinState
    /\ thin_call = NoThinCall
    /\ bus = EventBus
    /\ stack = <<>>
    /\ delivered = <<>>
    /\ publications = <<>>
    /\ reader = NewReader

NextPrune ==
    \/ \E file_path \in OneFile : TrackFile(file_path)
    \/ \E message \in Messages, checkpoint_id \in 1..MaxStored :
          CheckpointCreate(message, checkpoint_id)
    \/ \E limit \in 0..MaxStored : ListCheckpoints(limit)
    \/ \E keep_last \in 0..MaxStored : ClearOld(keep_last)
    \/ Tick

SpecPrune == InitPrune /\ [][NextPrune]_vars

\* A checkpoint manager through every operation it has, over one file.
InitStore ==
    /\ ctor = [mode |-> "default", allow_rules |-> <<>>, deny_rules |-> <<>>]
    /\ manager = PermissionManager(ctor.mode, ctor.allow_rules, ctor.deny_rules)
    /\ call = NoCall
    /\ permission_rule = parse(Edit)
    /\ rule_call = NoRuleCall
    /\ now = 0
    /\ run = create(0)
    /\ run_call = [op |-> "create", before |-> create(0), raised |-> None]
    /\ task = Task_create(0)
    /\ task_call = [op |-> "create", before |-> Task_create(0), raised |-> None]
    /\ approval = Approval_create("file_edit", <<>>, 0)
    /\ approval_call = [op |-> "create", before |-> Approval_create("file_edit", <<>>, 0),
                      at |-> 0, raised |-> None]
    /\ event_repository = InMemoryEventRepository
    /\ run_repository = KnownRuns
    /\ log_call = NoLogCall
    /\ fs = [dir |-> TRUE, files |-> [path \in Paths |-> Some(<<"a">>)], dirs |-> {}]
    /\ checkpoint_manager = FileCheckpointManager(0)
    /\ storage_dir = <<>>
    /\ uuid4 = 0
    /\ origin = [epoch |-> [path \in Paths |-> Untracked], checkpoints |-> <<>>]
    /\ checkpoint_call = NoCheckpointCall
    /\ approval_repository = InMemoryApprovalRepository
    /\ resolve_call = NoResolveCall
    /\ agent = create_agent({})
    /\ executed = <<>>
    /\ publishers = [caller \in Callers |-> IdlePublisher]
    /\ resolvers = [caller \in Callers |-> IdleResolver]
    /\ thin_state = ThinState
    /\ thin_call = NoThinCall
    /\ bus = EventBus
    /\ stack = <<>>
    /\ delivered = <<>>
    /\ publications = <<>>
    /\ reader = NewReader

NextStore ==
    \/ \E file_path \in OneFile : TrackFile(file_path)
    \/ \E message \in Messages, checkpoint_id \in 1..MaxCheckpoints :
          CheckpointCreate(message, checkpoint_id)
    \/ \E checkpoint_id \in 0..MaxCheckpoints : Restore(checkpoint_id)
    \/ \E limit \in 0..MaxCheckpoints : ListCheckpoints(limit)
    \/ \E keep_last \in 0..MaxCheckpoints : ClearOld(keep_last)
    \/ ClearTracked
    \/ IncrementTurn
    \/ \E path \in OneFile, content \in {<<"b">>} : WriteFile(path, content)

SpecStore == InitStore /\ [][NextStore]_vars

\* Two approvals, made pending at time 0 with or without a time of expiry,
\* are stored; requests to resolve them and others come in, approvals are
\* expired, time passes.
InitResolve ==
    /\ ctor = [mode |-> "default", allow_rules |-> <<>>, deny_rules |-> <<>>]
    /\ manager = PermissionManager(ctor.mode, ctor.allow_rules, ctor.deny_rules)
    /\ call = NoCall
    /\ permission_rule = parse(Edit)
    /\ rule_call = NoRuleCall
    /\ now = 0
    /\ run = create(0)
    /\ run_call = [op |-> "create", before |-> create(0), raised |-> None]
    /\ task = Task_create(0)
    /\ task_call = [op |-> "create", before |-> Task_create(0), raised |-> None]
    /\ approval = Approval_create("file_edit", <<>>, 0)
    /\ approval_call = [op |-> "create", before |-> Approval_create("file_edit", <<>>, 0),
                      at |-> 0, raised |-> None]
    /\ event_repository = InMemoryEventRepository
    /\ run_repository = KnownRuns
    /\ log_call = NoLogCall
    /\ fs = [dir |-> TRUE, files |-> [path \in Paths |-> Some(<<"a">>)], dirs |-> {}]
    /\ checkpoint_manager = FileCheckpointManager(0)
    /\ storage_dir = <<>>
    /\ uuid4 = 0
    /\ origin = [epoch |-> [path \in Paths |-> Untracked], checkpoints |-> <<>>]
    /\ checkpoint_call = NoCheckpointCall
    /\ \E expiry \in [ApprovalIds -> {None, Some(1)}] :
          approval_repository =
             [_approvals |->
                 [approval_id \in ApprovalIds |->
                     Approval(approval_id, ApprovalRun(approval_id),
                              [Approval_create("file_edit", <<>>, 0)
                                  EXCEPT !.expires_at = expiry[approval_id]])]]
    /\ resolve_call = NoResolveCall
    /\ agent = create_agent({})
    /\ executed = <<>>
    /\ publishers = [caller \in Callers |-> IdlePublisher]
    /\ resolvers = [caller \in Callers |-> IdleResolver]
    /\ thin_state = ThinState
    /\ thin_call = NoThinCall
    /\ bus = EventBus
    /\ stack = <<>>
    /\ delivered = <<>>
    /\ publications = <<>>
    /\ reader = NewReader

NextResolve ==
    \/ \E approval_id \in RequestIds, approved \in BOOLEAN, by \in Resolvers :
          Resolve(approval_id, approved, by.comment, by.resolved_by)
    \/ \E approval_id \in ApprovalIds : Expire(approval_id)
    \/ Tick

SpecResolve == InitResolve /\ [][NextResolve]_vars

\* The agent: a graph compiled with any of the tools, beside a permission
\* manager of any mode, with or without a deny rule for the file the model
\* may ask to read.  The graph is invoked, the model answers, the tool node
\* runs.
InitAgent ==
    /\ ctor \in [mode : PermissionMode,
                 allow_rules : {<<>>},
                 deny_rules : {<<>>, <<<<"R","e","a","d","(",".","e","n","v","*",")">>>>}]
    /\ manager = PermissionManager(ctor.mode, ctor.allow_rules, ctor.deny_rules)
    /\ call = NoCall
    /\ permission_rule = parse(Edit)
    /\ rule_call = NoRuleCall
    /\ now = 0
    /\ run = create(0)
    /\ run_call = [op |-> "create", before |-> create(0), raised |-> None]
    /\ task = Task_create(0)
    /\ task_call = [op |-> "create", before |-> Task_create(0), raised |-> None]
    /\ approval = Approval_create("file_edit", <<>>, 0)
    /\ approval_call = [op |-> "create", before |-> Approval_create("file_edit", <<>>, 0),
                      at |-> 0, raised |-> None]
    /\ event_repository = InMemoryEventRepository
    /\ run_repository = KnownRuns
    /\ log_call = NoLogCall
    /\ fs = [dir |-> TRUE, files |-> [path \in Paths |-> Some(<<"a">>)], dirs |-> {}]
    /\ checkpoint_manager = FileCheckpointManager(0)
    /\ storage_dir = <<>>
    /\ uuid4 = 0
    /\ origin = [epoch |-> [path \in Paths |-> Untracked], checkpoints |-> <<>>]
    /\ checkpoint_call = NoCheckpointCall
    /\ approval_repository = InMemoryApprovalRepository
    /\ resolve_call = NoResolveCall
    /\ \E tools \in SUBSET AgentTools : agent = create_agent(tools)
    /\ executed = <<>>
    /\ publishers = [caller \in Callers |-> IdlePublisher]
    /\ resolvers = [caller \in Callers |-> IdleResolver]
    /\ thin_state = ThinState
    /\ thin_call = NoThinCall
    /\ bus = EventBus
    /\ stack = <<>>
    /\ delivered = <<>>
    /\ publications = <<>>
    /\ reader = NewReader

NextAgent ==
    \/ Invoke
    \/ \E response \in SeqUpTo(ToolCalls, MaxToolCalls) : CallModel(response)
    \/ CallTools

SpecAgent == InitAgent /\ [][NextAgent]_vars

\* Resolution and the requesting task: the stored approvals are pending, and
\* task is the Task that approval-1 names as its requester (the approval's
\* requester_task_id); the task is assigned, blocked and unblocked by its
\* owner while approvals are resolved.
InitUnblock ==
    /\ ctor = [mode |-> "default", allow_rules |-> <<>>, deny_rules |-> <<>>]
    /\ manager = PermissionManager(ctor.mode, ctor.allow_rules, ctor.deny_rules)
    /\ call = NoCall
    /\ permission_rule = parse(Edit)
    /\ rule_call = NoRuleCall
    /\ now = 0
    /\ run = create(0)
    /\ run_call = [op |-> "create", before |-> create(0), raised |-> None]
    /\ task = Task_create(0)
    /\ task_call = [op |-> "create", before |-> Task_create(0), raised |-> None]
    /\ approval = Approval_create("file_edit", <<>>, 0)
    /\ approval_call = [op |-> "create", before |-> Approval_create("file_edit", <<>>, 0),
                      at |-> 0, raised |-> None]
    /\ event_repository = InMemoryEventRepository
    /\ run_repository = KnownRuns
    /\ log_call = NoLogCall
    /\ fs = [dir |-> TRUE, files |-> [path \in Paths |-> Some(<<"a">>)], dirs |-> {}]
    /\ checkpoint_manager = FileCheckpointManager(0)
    /\ storage_dir = <<>>
    /\ uuid4 = 0
    /\ origin = [epoch |-> [path \in Paths |-> Untracked], checkpoints |-> <<>>]
    /\ checkpoint_call = NoCheckpointCall
    /\ approval_repository =
          [_approvals |->
              [approval_id \in ApprovalIds |->
                  Approval(approval_id, ApprovalRun(approval_id),
                           Approval_create("file_edit", <<>>, 0))]]
    /\ resolve_call = NoResolveCall
    /\ agent = create_agent({})
    /\ executed = <<>>
    /\ publishers = [caller \in Callers |-> IdlePublisher]
    /\ resolvers = [caller \in Callers |-> IdleResolver]
    /\ thin_state = ThinState
    /\ thin_call = NoThinCall
    /\ bus = EventBus
    /\ stack = <<>>
    /\ delivered = <<>>
    /\ publications = <<>>
    /\ reader = NewReader

NextUnblock ==
    \/ \E worker_id \in WorkerIds : Task_assign(worker_id)
    \/ \E reason \in Reasons : Task_block(reason)
    \/ Task_unblock
    \/ \E approval_id \in RequestIds, approved \in BOOLEAN, by \in Resolvers :
          Resolve(approval_id, approved, by.comment, by.resolved_by)

SpecUnblock == InitUnblock /\ [][NextUnblock]_vars

\* Two callers publish on one bus at once, each to a run of its choice.
InitRace ==
    /\ ctor = [mode |-> "default", allow_rules |-> <<>>, deny_rules |-> <<>>]
    /\ manager = PermissionManager(ctor.mode, ctor.allow_rules, ctor.deny_rules)
    /\ call = NoCall
    /\ permission_rule = parse(Edit)
    /\ rule_call = NoRuleCall
    /\ now = 0
    /\ run = create(0)
    /\ run_call = [op |-> "create", before |-> create(0), raised |-> None]
    /\ task = Task_create(0)
    /\ task_call = [op |-> "create", before |-> Task_create(0), raised |-> None]
    /\ approval = Approval_create("file_edit", <<>>, 0)
    /\ approval_call = [op |-> "create", before |-> Approval_create("file_edit", <<>>, 0),
                      at |-> 0, raised |-> None]
    /\ event_repository = InMemoryEventRepository
    /\ run_repository = KnownRuns
    /\ log_call = NoLogCall
    /\ fs = [dir |-> TRUE, files |-> [path \in Paths |-> Some(<<"a">>)], dirs |-> {}]
    /\ checkpoint_manager = FileCheckpointManager(0)
    /\ storage_dir = <<>>
    /\ uuid4 = 0
    /\ origin = [epoch |-> [path \in Paths |-> Untracked], checkpoints |-> <<>>]
    /\ checkpoint_call = NoCheckpointCall
    /\ approval_repository = InMemoryApprovalRepository
    /\ resolve_call = NoResolveCall
    /\ agent = create_agent({})
    /\ executed = <<>>
    /\ publishers = [caller \in Callers |-> IdlePublisher]
    /\ resolvers = [caller \in Callers |-> IdleResolver]
    /\ thin_state = ThinState
    /\ thin_call = NoThinCall
    /\ bus = EventBus
    /\ stack = <<>>
    /\ delivered = <<>>
    /\ publications = <<>>
    /\ reader = NewReader

NextRace ==
    \/ \E caller \in Callers, run_id \in KnownRuns : publish_called(caller, run_id)
    \/ \E caller \in Callers : next_id_read(caller)
    \/ \E caller \in Callers : next_id_load(caller)
    \/ \E caller \in Callers : next_id_store(caller)
    \/ \E caller \in Callers : publish_save(caller)

SpecRace == InitRace /\ [][NextRace]_vars

\* Two callers resolve the one pending approval at once, each with a decision
\* of its own; the approval has no expiry, or one that comes as time passes.
InitResolveRace ==
    /\ ctor = [mode |-> "default", allow_rules |-> <<>>, deny_rules |-> <<>>]
    /\ manager = PermissionManager(ctor.mode, ctor.allow_rules, ctor.deny_rules)
    /\ call = NoCall
    /\ permission_rule = parse(Edit)
    /\ rule_call = NoRuleCall
    /\ now = 0
    /\ run = create(0)
    /\ run_call = [op |-> "create", before |-> create(0), raised |-> None]
    /\ task = Task_create(0)
    /\ task_call = [op |-> "create", before |-> Task_create(0), raised |-> None]
    /\ approval = Approval_create("file_edit", <<>>, 0)
    /\ approval_call = [op |-> "create", before |-> Approval_create("file_edit", <<>>, 0),
                      at |-> 0, raised |-> None]
    /\ event_repository = InMemoryEventRepository
    /\ run_repository = KnownRuns
    /\ log_call = NoLogCall
    /\ fs = [dir |-> TRUE, files |-> [path \in Paths |-> Some(<<"a">>)], dirs |-> {}]
    /\ checkpoint_manager = FileCheckpointManager(0)
    /\ storage_dir = <<>>
    /\ uuid4 = 0
    /\ origin = [epoch |-> [path \in Paths |-> Untracked], checkpoints |-> <<>>]
    /\ checkpoint_call = NoCheckpointCall
    /\ \E expires_at \in {None, Some(1)} :
          approval_repository =
             [_approvals |->
                 [approval_id \in {RacedApproval} |->
                     Approval(approval_id, ApprovalRun(approval_id),
                              [Approval_create("file_edit", <<>>, 0)
                                  EXCEPT !.expires_at = expires_at])]]
    /\ resolve_call = NoResolveCall
    /\ agent = create_agent({})
    /\ executed = <<>>
    /\ publishers = [caller \in Callers |-> IdlePublisher]
    /\ resolvers = [caller \in Callers |-> IdleResolver]
    /\ thin_state = ThinState
    /\ thin_call = NoThinCall
    /\ bus = EventBus
    /\ stack = <<>>
    /\ delivered = <<>>
    /\ publications = <<>>
    /\ reader = NewReader

NextResolveRace ==
    \/ \E caller \in Callers, approved \in BOOLEAN, by \in Resolvers :
          execute_find(caller, approved, by.comment, by.resolved_by)
    \/ \E caller \in Callers : _resolve_test(caller)
    \/ \E caller \in Callers : _resolve_write(caller)
    \/ \E caller \in Callers : execute_save_publish(caller)
    \/ \E caller \in Callers : execute_return(caller)
    \/ Tick

SpecResolveRace == InitResolveRace /\ [][NextResolveRace]_vars

\* The pending-approval queue of a new ThinState, under any calls.
InitThin ==
    /\ ctor = [mode |-> "default", allow_rules |-> <<>>, deny_rules |-> <<>>]
    /\ manager = PermissionManager(ctor.mode, ctor.allow_rules, ctor.deny_rules)
    /\ call = NoCall
    /\ permission_rule = parse(Edit)
    /\ rule_call = NoRuleCall
    /\ now = 0
    /\ run = create(0)
    /\ run_call = [op |-> "create", before |-> create(0), raised |-> None]
    /\ task = Task_create(0)
    /\ task_call = [op |-> "create", before |-> Task_create(0), raised |-> None]
    /\ approval = Approval_create("file_edit", <<>>, 0)
    /\ approval_call = [op |-> "create", before |-> Approval_create("file_edit", <<>>, 0),
                      at |-> 0, raised |-> None]
    /\ event_repository = InMemoryEventRepository
    /\ run_repository = KnownRuns
    /\ log_call = NoLogCall
    /\ fs = [dir |-> TRUE, files |-> [path \in Paths |-> Some(<<"a">>)], dirs |-> {}]
    /\ checkpoint_manager = FileCheckpointManager(0)
    /\ storage_dir = <<>>
    /\ uuid4 = 0
    /\ origin = [epoch |-> [path \in Paths |-> Untracked], checkpoints |-> <<>>]
    /\ checkpoint_call = NoCheckpointCall
    /\ approval_repository = InMemoryApprovalRepository
    /\ resolve_call = NoResolveCall
    /\ agent = create_agent({})
    /\ executed = <<>>
    /\ publishers = [caller \in Callers |-> IdlePublisher]
    /\ resolvers = [caller \in Callers |-> IdleResolver]
    /\ thin_state = ThinState
    /\ thin_call = NoThinCall
    /\ bus = EventBus
    /\ stack = <<>>
    /\ delivered = <<>>
    /\ publications = <<>>
    /\ reader = NewReader

NextThin ==
    \/ \E approval_id \in PendingIds : AddPendingApproval(approval_id)
    \/ \E approval_id \in PendingIds : RemovePendingApproval(approval_id)

SpecThin == InitThin /\ [][NextThin]_vars

\* A bus backed by a repository, its handlers subscribed and unsubscribed by
\* the owner of the bus and by the handlers themselves while they run;
\* events are published by the owner and by running handlers.
InitDeliver ==
    /\ ctor = [mode |-> "default", allow_rules |-> <<>>, deny_rules |-> <<>>]
    /\ manager = PermissionManager(ctor.mode, ctor.allow_rules, ctor.deny_rules)
    /\ call = NoCall
    /\ permission_rule = parse(Edit)
    /\ rule_call = NoRuleCall
    /\ now = 0
    /\ run = create(0)
    /\ run_call = [op |-> "create", before |-> create(0), raised |-> None]
    /\ task = Task_create(0)
    /\ task_call = [op |-> "create", before |-> Task_create(0), raised |-> None]
    /\ approval = Approval_create("file_edit", <<>>, 0)
    /\ approval_call = [op |-> "create", before |-> Approval_create("file_edit", <<>>, 0),
                      at |-> 0, raised |-> None]
    /\ event_repository = InMemoryEventRepository
    /\ run_repository = KnownRuns
    /\ log_call = NoLogCall
    /\ fs = [dir |-> TRUE, files |-> [path \in Paths |-> Some(<<"a">>)], dirs |-> {}]
    /\ checkpoint_manager = FileCheckpointManager(0)
    /\ storage_dir = <<>>
    /\ uuid4 = 0
    /\ origin = [epoch |-> [path \in Paths |-> Untracked], checkpoints |-> <<>>]
    /\ checkpoint_call = NoCheckpointCall
    /\ approval_repository = InMemoryApprovalRepository
    /\ resolve_call = NoResolveCall
    /\ agent = create_agent({})
    /\ executed = <<>>
    /\ publishers = [caller \in Callers |-> IdlePublisher]
    /\ resolvers = [caller \in Callers |-> IdleResolver]
    /\ thin_state = ThinState
    /\ thin_call = NoThinCall
    /\ bus = EventBus
    /\ stack = <<>>
    /\ delivered = <<>>
    /\ publications = <<>>
    /\ reader = NewReader

NextDeliver ==
    \/ \E handler \in Handlers : subscribe("info", handler)
    \/ \E handler \in Handlers : subscribe_all(handler)
    \/ \E handler \in Handlers : unsubscribe("info", handler)
    \/ \E handler \in Handlers : unsubscribe_all(handler)
    \/ Bus_publish("run-1", "info")
    \/ _notify
    \/ handler_returns

SpecDeliver == InitDeliver /\ [][NextDeliver]_vars

\* The reader polls the timeline of run-1, with any limit of at least one,
\* while events are published to run-1 and to run-2.
InitPage ==
    /\ ctor = [mode |-> "default", allow_rules |-> <<>>, deny_rules |-> <<>>]
    /\ manager = PermissionManager(ctor.mode, ctor.allow_rules, ctor.deny_rules)
    /\ call = NoCall
    /\ permission_rule = parse(Edit)
    /\ rule_call = NoRuleCall
    /\ now = 0
    /\ run = create(0)
    /\ run_call = [op |-> "create", before |-> create(0), raised |-> None]
    /\ task = Task_create(0)
    /\ task_call = [op |-> "create", before |-> Task_create(0), raised |-> None]
    /\ approval = Approval_create("file_edit", <<>>, 0)
    /\ approval_call = [op |-> "create", before |-> Approval_create("file_edit", <<>>, 0),
                      at |-> 0, raised |-> None]
    /\ event_repository = InMemoryEventRepository
    /\ run_repository = KnownRuns
    /\ log_call = NoLogCall
    /\ fs = [dir |-> TRUE, files |-> [path \in Paths |-> Some(<<"a">>)], dirs |-> {}]
    /\ checkpoint_manager = FileCheckpointManager(0)
    /\ storage_dir = <<>>
    /\ uuid4 = 0
    /\ origin = [epoch |-> [path \in Paths |-> Untracked], checkpoints |-> <<>>]
    /\ checkpoint_call = NoCheckpointCall
    /\ approval_repository = InMemoryApprovalRepository
    /\ resolve_call = NoResolveCall
    /\ agent = create_agent({})
    /\ executed = <<>>
    /\ publishers = [caller \in Callers |-> IdlePublisher]
    /\ resolvers = [caller \in Callers |-> IdleResolver]
    /\ thin_state = ThinState
    /\ thin_call = NoThinCall
    /\ bus = EventBus
    /\ stack = <<>>
    /\ delivered = <<>>
    /\ publications = <<>>
    /\ reader = NewReader

NextPage ==
    \/ \E run_id \in KnownRuns : Publish(run_id, "info", None)
    \/ LogReturn
    \/ \E limit \in 1..MaxLimit : ReaderPoll(limit)

SpecPage == InitPage /\ [][NextPage]_vars

(***************************************************************************)
(* Properties of PermissionManager.check (under Spec).                     *)
(***************************************************************************)
\* The dict of the last call of check
CallArgs == IF call.args = None THEN EmptyArgs ELSE call.args[1]

\* What rule i of a parsed list answers to the last call of check
Answer(rules, i) == matches(rules[i], call.tool_name, CallArgs)

\* Every rule of both lists is evaluated to a non-match.
NoRuleMatches ==
    /\ \A i \in 1..Len(manager._deny_rules) : Answer(manager._deny_rules, i) = "False"
    /\ \A i \in 1..Len(manager._allow_rules) : Answer(manager._allow_rules, i) = "False"

\* C1: deny precedence: in every mode, with any allow list, whenever at
\* least one deny rule matches the invocation, check returns DENY.
C1_DenyPrecedence ==
    (/\ call.op = "check"
     /\ \E i \in 1..Len(manager._deny_rules) : Answer(manager._deny_rules, i) = "True")
    => call.result = "deny"

Reordered(p, q) ==
    [manager EXCEPT
        !._deny_rules = [i \in 1..Len(manager._deny_rules) |-> manager._deny_rules[p[i]]],
        !._allow_rules = [i \in 1..Len(manager._allow_rules) |-> manager._allow_rules[q[i]]]]

\* C3: the evaluation order is fixed: no deny rule matching and an allow
\* rule matching gives ALLOW in every mode; no rule matching gives the mode
\* default; and the order of the rules inside a list never changes the
\* result.
C3_EvaluationOrder ==
    call.op = "check" =>
        /\ (/\ \A i \in 1..Len(manager._deny_rules) :
                    Answer(manager._deny_rules, i) = "False"
            /\ \E i \in 1..Len(manager._allow_rules) :
                    Answer(manager._allow_rules, i) = "True")
           => call.result = "allow"
        /\ NoRuleMatches => call.result = _check_by_mode(manager, call.tool_name)
        /\ \A p \in Permutations(1..Len(manager._deny_rules)),
              q \in Permutations(1..Len(manager._allow_rules)) :
                check(Reordered(p, q), call.tool_name, call.args) = call.result

\* C4: the mode defaults, returned when no rule matches: plan and default
\* give ALLOW exactly for the six safe names and ASK for every other name;
\* accept_edits gives ALLOW exactly for the safe and the write names and ASK
\* for every other name; no mode default is DENY.
C4_ModeDefaults ==
    LET safe == {Read, read_tool, Glob, glob_tool, Grep, grep_tool}
        write == {Edit, edit_tool, Write, write_tool}
        t == call.tool_name
    IN  (call.op = "check" /\ NoRuleMatches) =>
            /\ manager.mode \in {"plan", "default"} =>
                    call.result = (IF t \in safe THEN "allow" ELSE "ask")
            /\ manager.mode = "accept_edits" =>
                    call.result = (IF t \in safe \cup write THEN "allow" ELSE "ask")
            /\ call.result \in {"allow", "ask"}

\* C4's case: accept_edits allows a write tool and asks for an unknown name
\* while rules that do not match are present.
C4_Witness ==
    /\ call.op = "check"
    /\ NoRuleMatches
    /\ ctor.deny_rules # <<>>
    /\ manager.mode = "accept_edits"
    /\ call.tool_name = write_tool
    /\ call.result = "allow"

\* A manager built like the one of this state, from other rule lists
Rebuilt(allow_rules, deny_rules) ==
    PermissionManager(ctor.mode, allow_rules, deny_rules)

\* The list s without its element i
Without(s, i) == SubSeq(s, 1, i - 1) \o SubSeq(s, i + 1, Len(s))

\* A rule string that is neither ToolName nor ToolName(pattern)
Unparsable(rule_string) == RuleRegexMatch(strip(rule_string)) = None

\* C5: a rule string that cannot be parsed matches no invocation: with it in
\* the deny list or in the allow list, check returns what it returns without
\* it, for every tool name and args, and check does not raise on its account.
C5_UnparsableRuleMatchesNothing ==
    call.op = "check" =>
        /\ \A i \in 1..Len(ctor.deny_rules) :
              Unparsable(ctor.deny_rules[i]) =>
                  call.result =
                      check(Rebuilt(ctor.allow_rules, Without(ctor.deny_rules, i)),
                            call.tool_name, call.args)
        /\ \A i \in 1..Len(ctor.allow_rules) :
              Unparsable(ctor.allow_rules[i]) =>
                  call.result =
                      check(Rebuilt(Without(ctor.allow_rules, i), ctor.deny_rules),
                            call.tool_name, call.args)

\* The last call of check lacks the salient argument of its tool: file_path
\* for Read, Edit and Write, command for Bash, path and pattern both for
\* Grep and Glob (and for the alias of each).
LacksSalientArgument ==
    LET t == call.tool_name
        has(key) == key \in DOMAIN CallArgs
    IN  \/ t \in {Read, read_tool, Edit, edit_tool, Write, write_tool}
            /\ ~has("file_path")
        \/ t \in {Bash, bash_tool} /\ ~has("command")
        \/ t \in {Grep, grep_tool, Glob, glob_tool}
            /\ ~has("path") /\ ~has("pattern")

\* The rules of a parsed list that carry no pattern, in order
RECURSIVE Patternless(_)
Patternless(rules) ==
    IF rules = <<>> THEN <<>>
    ELSE (IF Head(rules).pattern = None THEN <<Head(rules)>> ELSE <<>>)
            \o Patternless(Tail(rules))

\* C6: when args lacks the salient argument of the tool, no rule that
\* carries a pattern matches, check does not raise, and the result is the one
\* of the remaining rules and then of the mode default; a deny rule with a
\* pattern never denies such a call.
C6_MissingArgumentIsNoMatch ==
    (call.op = "check" /\ LacksSalientArgument) =>
        /\ \A i \in 1..Len(manager._deny_rules) :
              manager._deny_rules[i].pattern # None =>
                  Answer(manager._deny_rules, i) = "False"
        /\ \A i \in 1..Len(manager._allow_rules) :
              manager._allow_rules[i].pattern # None =>
                  Answer(manager._allow_rules, i) = "False"
        /\ call.result # "re.error"
        /\ call.result =
              check([manager EXCEPT
                        !._deny_rules = Patternless(manager._deny_rules),
                        !._allow_rules = Patternless(manager._allow_rules)],
                    call.tool_name, call.args)
        /\ call.result = "deny" =>
              \E i \in 1..Len(manager._deny_rules) :
                  /\ manager._deny_rules[i].pattern = None
                  /\ manager._deny_rules[i].tool_name = call.tool_name

\* C6's case: Bash is called without a command while the deny list holds a
\* Bash rule with a pattern; the call is not denied.
C6_Witness ==
    /\ call.op = "check"
    /\ call.tool_name = Bash
    /\ LacksSalientArgument
    /\ call.args # None
    /\ \E i \in 1..Len(manager._deny_rules) :
          /\ manager._deny_rules[i].tool_name = Bash
          /\ manager._deny_rules[i].pattern # None
    /\ call.result = "ask"

\* The other name of a tool that has two names
Alias(tool_name) ==
    LET pairs == {<<Read, read_tool>>, <<Edit, edit_tool>>, <<Write, write_tool>>,
                  <<Glob, glob_tool>>, <<Grep, grep_tool>>, <<Bash, bash_tool>>}
    IN  IF \E pr \in pairs : pr[1] = tool_name
        THEN (CHOOSE pr \in pairs : pr[1] = tool_name)[2]
        ELSE IF \E pr \in pairs : pr[2] = tool_name
        THEN (CHOOSE pr \in pairs : pr[2] = tool_name)[1]
        ELSE tool_name

\* C7: the two names of a tool are classified alike: what is_safe_tool,
\* is_write_tool, is_exec_tool and the mode default answered for one name is
\* what they answer for the other; and no name is in two of the three sets.
C7_AliasesClassifiedAlike ==
    LET other == Alias(call.tool_name) IN
    /\ call.op = "is_safe_tool" => call.result = BoolStr(is_safe_tool(other))
    /\ call.op = "is_write_tool" => call.result = BoolStr(is_write_tool(other))
    /\ call.op = "is_exec_tool" => call.result = BoolStr(is_exec_tool(other))
    /\ (call.op = "check" /\ NoRuleMatches) =>
            call.result = _check_by_mode(manager, other)
    /\ SAFE_TOOLS \cap WRITE_TOOLS = {}
    /\ SAFE_TOOLS \cap EXEC_TOOLS = {}
    /\ WRITE_TOOLS \cap EXEC_TOOLS = {}

\* C7's case: is_write_tool has answered True for the alias edit_tool.
C7_Witness ==
    /\ call.op = "is_write_tool"
    /\ call.tool_name = edit_tool
    /\ Alias(call.tool_name) = Edit
    /\ call.result = "True"

(***************************************************************************)
(* Properties of PermissionRule.matches (under SpecRule).                  *)
(***************************************************************************)
\* The pattern of the rule and the path of the last call of matches
RulePattern == permission_rule.pattern[1]
CallValue == rule_call.args["file_path"]

\* A glob read one path segment at a time, matched against the whole of
\* value: "*" is any text without "/", "?" any one character but "/", every
\* other character itself.
RECURSIVE SingleSegmentGlob(_, _)
SingleSegmentGlob(value, pat) ==
    IF pat = <<>> THEN value = <<>>
    ELSE IF Head(pat) = "*"
         THEN \E k \in 0..Len(value) :
                /\ \A i \in 1..k : value[i] # "/"
                /\ SingleSegmentGlob(SubSeq(value, k + 1, Len(value)), Tail(pat))
    ELSE /\ value # <<>>
         /\ \/ Head(pat) = Head(value)
            \/ Head(pat) = "?" /\ Head(value) # "/"
         /\ SingleSegmentGlob(Tail(value), Tail(pat))

\* C8: a rule whose pattern holds neither ":*" nor "**" matches only a value
\* the whole of which matches the pattern as a single-segment glob: "*" does
\* not match across "/".
C8_SingleSegmentGlobOnly ==
    (/\ rule_call # NoRuleCall
     /\ permission_rule.pattern # None
     /\ ~contains(RulePattern, <<":","*">>)
     /\ ~contains(RulePattern, <<"*","*">>)
     /\ rule_call.result = "True")
    => SingleSegmentGlob(CallValue, RulePattern)

\* The reading of a ** pattern: "**/" is zero or more complete path segments
\* (each ended by "/"), a "**" left over is any text, a "*" left over is any
\* text without "/", every other character is itself.
DoubleStarTokens(pattern) ==
    replace(replace(replace(pattern, <<"*","*","/">>, <<"**/">>),
                    <<"*","*">>, <<"**">>),
            <<"*">>, <<"*1">>)

RECURSIVE DoubleStarReading(_, _)
DoubleStarReading(tokens, value) ==
    LET rest(k) == SubSeq(value, k + 1, Len(value)) IN
    IF tokens = <<>> THEN value = <<>>
    ELSE IF Head(tokens) = "**/"
         THEN \E k \in 0..Len(value) :
                /\ k > 0 => value[k] = "/"
                /\ DoubleStarReading(Tail(tokens), rest(k))
    ELSE IF Head(tokens) = "**"
         THEN \E k \in 0..Len(value) : DoubleStarReading(Tail(tokens), rest(k))
    ELSE IF Head(tokens) = "*1"
         THEN \E k \in 0..Len(value) :
                /\ \A i \in 1..k : value[i] # "/"
                /\ DoubleStarReading(Tail(tokens), rest(k))
    ELSE /\ value # <<>>
         /\ Head(value) = Head(tokens)
         /\ DoubleStarReading(Tail(tokens), Tail(value))

\* C9: a rule whose pattern holds "**" and no ":*" matches a value exactly
\* when the whole value matches the pattern in that reading.
C9_DoubleStarReading ==
    (/\ rule_call # NoRuleCall
     /\ permission_rule.pattern # None
     /\ ~contains(RulePattern, <<":","*">>)
     /\ contains(RulePattern, <<"*","*">>))
    => (rule_call.result = "True"
            <=> DoubleStarReading(DoubleStarTokens(RulePattern), CallValue))

C11_TerminalAbsorbing ==
    /\ [](is_terminal(run) <=> ~is_active(run))
    /\ [][is_terminal(run) => run'.status = run.status]_vars

\* C11's case: a call was made on a Run that was already terminal.
C11_Witness ==
    /\ run_call.op \in {"start", "complete", "fail", "cancel"}
    /\ is_terminal(run_call.before)
    /\ is_terminal(run)

\* C12: assign succeeds only from pending, block only from in_progress,
\* unblock only from blocked, complete and fail only from in_progress; a call
\* that succeeds sets the status of the table; every other call raises
\* InvalidStateError and leaves status, owner_worker_id, error_message and
\* output_refs as they were.
C12_TaskTransitionTable ==
    LET op == task_call.op
        was == task_call.before
        needed ==
            CASE op = "assign" -> "pending"
              [] op = "unblock" -> "blocked"
              [] OTHER -> "in_progress"
        target ==
            CASE op \in {"assign", "unblock"} -> "in_progress"
              [] op = "block" -> "blocked"
              [] op = "complete" -> "completed"
              [] op = "fail" -> "failed"
    IN  op # "create" =>
            IF was.status = needed
            THEN task_call.raised = None /\ task.status = target
            ELSE /\ task_call.raised # None
                 /\ task_call.raised[1][1] = "InvalidStateError"
                 /\ task.status = was.status
                 /\ task.owner_worker_id = was.owner_worker_id
                 /\ task.error_message = was.error_message
                 /\ task.output_refs = was.output_refs

\* C12's case: complete was called on a blocked Task that has a reason, and
\* was refused.
C12_Witness ==
    /\ task_call.op = "complete"
    /\ task_call.before.status = "blocked"
    /\ task_call.before.error_message # None
    /\ task_call.raised # None

(***************************************************************************)
(* Properties of Approval (under SpecApproval and SpecRisk).               *)
(***************************************************************************)
\* The fields a resolution writes
Resolution(self) ==
    <<self.status, self.resolved_at, self.resolved_by, self.comment>>

C14_ResolvedImmutable ==
    [][approval.status \in {"approved", "rejected", "expired"} =>
          /\ Resolution(approval') = Resolution(approval)
          /\ approval_call' # approval_call =>
                /\ approval_call'.raised # None
                /\ approval_call'.raised[1][1] = "InvalidStateError"]_vars

\* C14's case: approve was called, later, on a rejected approval.
C14_Witness ==
    /\ approval_call.op = "approve"
    /\ approval_call.before.status = "rejected"
    /\ approval_call.before.resolved_at # None
    /\ approval_call.at > approval_call.before.resolved_at[1]
    /\ approval.status = "rejected"

\* The patterns of a list that occur in a text, as indexes of the list
Hits(patterns, text) ==
    {i \in 1..Len(patterns) : contains(text, patterns[i])}

\* The sum of the lengths of the patterns at the indexes of a set
RECURSIVE TotalLen(_, _)
TotalLen(patterns, indexes) ==
    IF indexes = {} THEN 0
    ELSE LET i == CHOOSE j \in indexes : TRUE
         IN  Len(patterns[i]) + TotalLen(patterns, indexes \ {i})

\* C15: Approval.create sets risk_score to min(5, base + the number of
\* dangerous patterns found in the target as written + the number of
\* sensitive paths found in the lower-cased target), base 2 for file_edit and
\* file_create, 3 for bash_command, 4 for file_delete and git_push, so the
\* score is in 2..5; risk_reason is "standard <type>" when nothing was found
\* and otherwise holds one fragment per pattern found, joined by ", ".
C15_RiskAssessment ==
    approval_call.op = "assess_risk" =>
    LET target == approval.target
        base ==
            CASE approval.type \in {"file_edit", "file_create"} -> 2
              [] approval.type = "bash_command" -> 3
              [] approval.type \in {"file_delete", "git_push"} -> 4
        dangerous == Hits(dangerous_patterns, target)
        sensitive == Hits(sensitive_paths, lower(target))
        hits == Cardinality(dangerous) + Cardinality(sensitive)
        reason == approval.risk_reason
    IN  /\ approval.risk_score = IF base + hits < 5 THEN base + hits ELSE 5
        /\ approval.risk_score \in 2..5
        /\ hits = 0 =>
              reason = <<"s","t","a","n","d","a","r","d"," ">> \o ApprovalTypeValue(approval.type)
        /\ hits > 0 =>
              /\ \A i \in dangerous :
                    contains(reason,
                             <<"c","o","n","t","a","i","n","s"," ","'">> \o dangerous_patterns[i] \o <<"'">>)
              /\ \A i \in sensitive :
                    contains(reason,
                             <<"t","o","u","c","h","e","s"," ","s","e","n","s","i","t","i","v","e"," ","p","a","t","h"," ","'">> \o sensitive_paths[i] \o <<"'">>)
              /\ Len(reason) =
                    TotalLen(dangerous_patterns, dangerous)
                    + TotalLen(sensitive_paths, sensitive)
                    + 11 * Cardinality(dangerous)
                    + 25 * Cardinality(sensitive)
                    + 2 * (hits - 1)
        /\ approval.type = "bash_command" /\ target = <<"r","m"," ","-","r","f"," ","/","t","m","p","/","x">>
           => approval.risk_score >= 4
        /\ approval.type = "file_edit" /\ target = <<".","e","n","v">>
           => approval.risk_score >= 3 /\ contains(reason, <<".","e","n","v">>)

\* C15's case: a git push whose target names DROP and, in capitals, .ENV:
\* two patterns found, one of them after lower-casing, and the score capped.
C15_Witness ==
    /\ approval_call.op = "assess_risk"
    /\ approval.type = "git_push"
    /\ approval.target = <<"D","R","O","P",".","E","N","V">>
    /\ approval.risk_score = 5
    /\ approval.risk_reason # <<>>

(***************************************************************************)
(* Properties of the event log (under SpecBus, SpecLog and SpecQuery).     *)
(***************************************************************************)
\* The stored events
Stored == event_repository._events

\* C16: when nothing but publish is called on a bus with its repository, the
\* k-th event stored has identity k, whatever the run ids: the identities
\* stored are 1..n, none twice, and publish returns the event it stored.
C16_IdentitiesGapFree ==
    /\ \A k \in 1..Len(Stored) : Stored[k].id = k
    /\ {Stored[k].id : k \in 1..Len(Stored)} = 1..Len(Stored)
    /\ log_call.op = "publish" =>
          /\ log_call.result = Some(Stored[Len(Stored)])
          /\ log_call.result[1].id = Len(Stored)

\* C16's case: MaxEvents events were published, to more than one run.
C16_Witness ==
    /\ log_call.op = "publish"
    /\ Len(Stored) = MaxEvents
    /\ Stored[1].run_id # Stored[Len(Stored)].run_id

\* The places of the stored events of a run whose identity is above a cursor
\* (every event of the run when there is no cursor)
After(run_id, since_id) ==
    {i \in 1..Len(Stored) :
        /\ Stored[i].run_id = run_id
        /\ since_id # None => Stored[i].id > since_id[1]}

\* result holds the first `limit` of the stored events at `places`, taken in
\* ascending order of identity: each event of result is a stored event of
\* its own place, the identities never decrease, as many events are there as
\* the limit lets in, and no event left out has a smaller identity than one
\* returned.
FirstAscending(result, places, limit) ==
    /\ Len(result) = IF limit < Cardinality(places) THEN limit
                     ELSE Cardinality(places)
    /\ \A i \in 1..Len(result) : \A j \in 1..Len(result) :
          i < j => result[i].id <= result[j].id
    /\ \E place \in [1..Len(result) -> places] :
          /\ \A i \in 1..Len(result) : \A j \in 1..Len(result) :
                i # j => place[i] # place[j]
          /\ \A i \in 1..Len(result) : result[i] = Stored[place[i]]
          /\ \A left \in places \ {place[i] : i \in 1..Len(result)} :
                \A i \in 1..Len(result) : result[i].id <= Stored[left].id

\* C17: find_by_run(run_id, since_id, limit) returns the stored events of
\* the run whose identity is above since_id (all of them when since_id is
\* None), in ascending order of identity, cut to the first limit; no event of
\* another run is returned.
C17_FindByRun ==
    log_call.op = "find_by_run" =>
        LET run_id == log_call.args[1]
            since_id == log_call.args[2]
            limit == log_call.args[3]
        IN  /\ FirstAscending(log_call.result, After(run_id, since_id), limit)
            /\ \A i \in 1..Len(log_call.result) :
                  log_call.result[i].run_id = run_id

\* C17's case: the events of the run were stored out of order, another run
\* has events too, and a cursor and a limit both cut the result.
C17_Witness ==
    /\ log_call.op = "find_by_run"
    /\ log_call.args[2] = Some(1)
    /\ Len(log_call.result) = 1
    /\ Cardinality(After(log_call.args[1], log_call.args[2])) = 2
    /\ \E i \in 1..Len(Stored) : Stored[i].run_id # log_call.args[1]
    /\ \E i \in 1..Len(Stored) : \E j \in 1..Len(Stored) :
          i < j /\ Stored[i].id > Stored[j].id
             /\ Stored[i].run_id = log_call.args[1]
             /\ Stored[j].run_id = log_call.args[1]
             /\ Stored[j].id > 1

\* C18: execute with limit n, for a run that exists, returns at most n
\* events; has_more is true exactly when the run has more than n events
\* above the cursor; latest_event_id is the identity of the last event
\* returned, None when none is returned.
C18_TimelinePage ==
    log_call.op = "execute" /\ log_call.raised = None =>
        LET run_id == log_call.args[1]
            since_id == log_call.args[2]
            limit == log_call.args[3]
            page == log_call.result.events
        IN  /\ Len(page) <= limit
            /\ log_call.result.has_more
                  <=> Cardinality(After(run_id, since_id)) > limit
            /\ log_call.result.latest_event_id =
                  IF page = <<>> THEN None ELSE Some(page[Len(page)].id)

\* C18's case: a page of one event after a cursor, with more to come.
C18_Witness ==
    /\ log_call.op = "execute"
    /\ log_call.raised = None
    /\ log_call.args[2] = Some(1)
    /\ log_call.args[3] = 1
    /\ log_call.result.has_more
    /\ log_call.result.latest_event_id = Some(2)

\* The stored events stay where they are, as they are
Kept == /\ Len(Stored) <= Len(Stored')
        /\ \A i \in 1..Len(Stored) : Stored'[i] = Stored[i]

C20_RoundTrip ==
    checkpoint_call.op = "restore" /\ checkpoint_call.raised = None =>
        LET c == checkpoint_call.nums[1]
        IN  \A f \in Paths :
                origin.checkpoints[c][f].tracked
                   /\ origin.checkpoints[c][f].bytes # None
                => /\ fs.files[f] = origin.checkpoints[c][f].bytes
                   /\ \E i \in 1..Len(checkpoint_call.result[1]) :
                         checkpoint_call.result[1][i] = f

\* C21: restore(c.id) puts every path tracked in the epoch that produced the
\* checkpoint c back in the state it had when it was tracked; for a path that
\* held a file that is C20, and here is the other half: a path that held
\* nothing when it was tracked ("new") holds nothing after the restore,
\* whatever was created there in between.
C21_NewPathAbsentAgain ==
    checkpoint_call.op = "restore" /\ checkpoint_call.raised = None =>
        LET c == checkpoint_call.nums[1]
        IN  \A f \in Paths :
                origin.checkpoints[c][f].tracked
                   /\ origin.checkpoints[c][f].bytes = None
                => fs.files[f] = None

\* C22: first write wins within an epoch: whatever was tracked again or
\* written after the first track_file(f) of a file f, the checkpoint that
\* create then makes holds exactly one snapshot for f, and its content is
\* what f held at that first call.
C22_FirstWriteWins ==
    checkpoint_call.op = "create" =>
        LET checkpoint == checkpoint_call.result[1]
            epoch == origin.checkpoints[checkpoint.id]
            of(f) == {i \in 1..Len(checkpoint.snapshots) :
                         checkpoint.snapshots[i].path = f}
        IN  \A f \in Paths :
                epoch[f].tracked /\ epoch[f].bytes # None
                => /\ Cardinality(of(f)) = 1
                   /\ \A i \in of(f) :
                         checkpoint.snapshots[i].content = epoch[f].bytes[1]

\* C23: create ends the epoch.  The checkpoint it returns holds exactly the
\* snapshots, those that are not None, of what was tracked since the previous
\* create or clear_tracked; it is added to the stored checkpoints, which stay
\* as they were; the tracked set is empty afterwards; and a path tracked after
\* that is recorded as its file is at that later call, as a manager that never
\* tracked it would record it.
C23_CreateEndsEpoch ==
    [][/\ checkpoint_call'.op = "create" =>
             LET checkpoint == checkpoint_call'.result[1]
                 tracked == checkpoint_manager._tracked_files
             IN  /\ {checkpoint.snapshots[i] : i \in 1..Len(checkpoint.snapshots)}
                       = {tracked[path][1] :
                             path \in {q \in DOMAIN tracked : tracked[q] # None}}
                 /\ Len(checkpoint.snapshots)
                       = Cardinality({q \in DOMAIN tracked : tracked[q] # None})
                 /\ storage_dir' = Append(storage_dir, checkpoint)
                 /\ DOMAIN checkpoint_manager'._tracked_files = {}
       /\ checkpoint_call'.op = "track_file" =>
             LET path_str == resolve(checkpoint_call'.args[1])
             IN  Len(origin.checkpoints) >= 1 /\ ~origin.epoch[path_str].tracked =>
                 /\ path_str \in DOMAIN checkpoint_manager'._tracked_files
                 /\ checkpoint_manager'._tracked_files[path_str] =
                       track_file(FileCheckpointManager(0), fs,
                                  path_str)._tracked_files[path_str]
      ]_vars

\* A path snapshotted in a stored checkpoint is tracked again, after its file
\* was changed, and is recorded with the new content.
C23_Witness ==
    /\ checkpoint_call.op = "track_file"
    /\ Len(storage_dir) >= 1
    /\ \E f \in DOMAIN checkpoint_manager._tracked_files :
          /\ checkpoint_manager._tracked_files[f] # None
          /\ \E i \in 1..Len(storage_dir[1].snapshots) :
                /\ storage_dir[1].snapshots[i].path = f
                /\ storage_dir[1].snapshots[i].content
                      # checkpoint_manager._tracked_files[f][1].content

(***************************************************************************)
(* Properties of restore over several files (under SpecRestore).           *)
(***************************************************************************)
\* C24: restore is best effort, file by file.  A snapshot whose file cannot
\* be written (a directory stands at its path) is passed over; every other
\* snapshot of the checkpoint is written, before it or after it; restore does
\* not raise; and it returns exactly the paths it wrote, in the order of the
\* snapshots.  What it did not write is as it was.
C24_BestEffort ==
    [][checkpoint_call'.op = "restore"
          /\ _load_checkpoint(storage_dir, checkpoint_call'.nums[1]) # None =>
          LET checkpoint == _load_checkpoint(storage_dir,
                                             checkpoint_call'.nums[1])[1]
              paths == [i \in 1..Len(checkpoint.snapshots) |->
                           checkpoint.snapshots[i].path]
              writable(path) == path \notin fs.dirs
          IN  /\ checkpoint_call'.raised = None
              /\ checkpoint_call'.result = Some(SelectSeq(paths, writable))
              /\ \A i \in 1..Len(checkpoint.snapshots) :
                    writable(paths[i]) =>
                       fs'.files[paths[i]] =
                          Some(write_text(checkpoint.snapshots[i].content))
              /\ \A path \in Paths :
                    (~writable(path) \/ \A i \in 1..Len(paths) : paths[i] # path)
                    => fs'.files[path] = fs.files[path]
              /\ fs'.dirs = fs.dirs
      ]_vars

\* A checkpoint of two files is restored while a directory stands at one of
\* the paths and the other file was changed: one path is returned, and that
\* file holds its snapshot again.
C24_Witness ==
    /\ checkpoint_call.op = "restore"
    /\ checkpoint_call.raised = None
    /\ Len(checkpoint_call.result[1]) = 1
    /\ \E i \in 1..Len(storage_dir) :
          /\ storage_dir[i].id = checkpoint_call.nums[1]
          /\ Len(storage_dir[i].snapshots) = 2
    /\ fs.dirs # {}
    /\ fs.files[checkpoint_call.result[1][1]] = Some(<<"a">>)

C26_ClearOld ==
    [][checkpoint_call'.op = "clear_old" /\ now' = now =>
          LET k == checkpoint_call'.nums[1]
              n == Len(storage_dir)
              newest == list_checkpoints(storage_dir, k)
          IN  /\ Len(storage_dir') = IF n < k THEN n ELSE k
              /\ checkpoint_call'.result = Some(IF n > k THEN n - k ELSE 0)
              /\ {storage_dir'[i] : i \in 1..Len(storage_dir')}
                    = {newest[i] : i \in 1..Len(newest)}
              /\ \A i \in 1..Len(storage_dir') :
                    \A j \in 1..n :
                       storage_dir'[i].timestamp < storage_dir[j].timestamp
                       => \E h \in 1..Len(storage_dir') :
                             storage_dir'[h] = storage_dir[j]
      ]_vars

\* C27: stored checkpoints are immutable and only clear_old removes them.
\* Any call but clear_old (track_file, create, restore, list_checkpoints,
\* clear_tracked, increment_turn; a tool writing a file) leaves every stored
\* checkpoint stored as it was, identity, turn, timestamp, message and
\* snapshots; and create adds one checkpoint under an identity that no stored
\* checkpoint has and none ever had.
C27_StoredImmutable ==
    [][/\ checkpoint_call'.op # "clear_old" =>
             /\ Len(storage_dir') >= Len(storage_dir)
             /\ \A i \in 1..Len(storage_dir) : storage_dir'[i] = storage_dir[i]
       /\ checkpoint_call'.op = "create" =>
             /\ Len(storage_dir') = Len(storage_dir) + 1
             /\ storage_dir'[Len(storage_dir')] = checkpoint_call'.result[1]
             /\ checkpoint_call'.result[1].id \notin 1..uuid4
             /\ \A i \in 1..Len(storage_dir) :
                   storage_dir[i].id # checkpoint_call'.result[1].id
      ]_vars

\* Two checkpoints of different turns, the first with a snapshot, are stored
\* when a restore has succeeded.
C27_Witness ==
    /\ checkpoint_call.op = "restore"
    /\ checkpoint_call.raised = None
    /\ Len(storage_dir) = 2
    /\ storage_dir[1].turn # storage_dir[2].turn
    /\ storage_dir[1].snapshots # <<>>

(***************************************************************************)
(* Properties of ResolveApprovalUseCase (under SpecResolve).  A step that  *)
(* leaves the clock alone and has an execute as its last call is a call    *)
(* of execute.                                                             *)
(***************************************************************************)
\* The events that tell of the resolution of the approval
ResolutionEvents(events, approval_id) ==
    {i \in 1..Len(events) :
        /\ events[i].type \in {"approval.approved", "approval.rejected"}
        /\ events[i].data.approval_id = approval_id}

\* C28: an execute that succeeds found the approval pending; it leaves it
\* stored as Approved or Rejected, as the request says, with the request's
\* resolved_by and comment, leaves the other approvals alone, and appends to
\* the log exactly one event, of the approval's run, of type
\* approval.approved or approval.rejected, with the approval's id.  Whatever
\* requests are made, the log never holds two such events for one approval.
C28_ResolveOnce ==
    [][/\ resolve_call'.op = "execute" /\ now' = now
             /\ resolve_call'.raised = None =>
             LET request == resolve_call'.request[1]
                 before == approval_repository._approvals[request.approval_id]
                 after == approval_repository'._approvals[request.approval_id]
                 events == event_repository._events
                 appended == event_repository'._events
                 event == appended[Len(appended)]
             IN  /\ request.approval_id \in DOMAIN approval_repository._approvals
                 /\ before.status = "pending"
                 /\ after = [before EXCEPT
                               !.status = IF request.approved THEN "approved"
                                          ELSE "rejected",
                               !.resolved_by = Some(request.resolved_by),
                               !.comment = request.comment,
                               !.resolved_at = Some(now)]
                 /\ DOMAIN approval_repository'._approvals
                       = DOMAIN approval_repository._approvals
                 /\ \A other \in DOMAIN approval_repository._approvals :
                       other # request.approval_id =>
                          approval_repository'._approvals[other]
                             = approval_repository._approvals[other]
                 /\ Len(appended) = Len(events) + 1
                 /\ SubSeq(appended, 1, Len(events)) = events
                 /\ event.run_id = before.run_id
                 /\ event.type = IF request.approved THEN "approval.approved"
                                 ELSE "approval.rejected"
                 /\ event.data.approval_id = before.id
       /\ \A approval_id \in ApprovalIds :
             Cardinality(ResolutionEvents(event_repository'._events,
                                          approval_id)) <= 1
      ]_vars

\* Both approvals have been resolved, one approved and the last one rejected,
\* and the log holds the two events.
C28_Witness ==
    /\ resolve_call.op = "execute"
    /\ resolve_call.raised = None
    /\ ~resolve_call.request[1].approved
    /\ Len(event_repository._events) = 2
    /\ event_repository._events[1].type = "approval.approved"
    /\ event_repository._events[2].type = "approval.rejected"
    /\ \A approval_id \in ApprovalIds :
          approval_repository._approvals[approval_id].status
             \in {"approved", "rejected"}

\* C29: an execute that fails, with NotFoundError for an id no approval is
\* stored under, or with InvalidStateError for an approval that is Approved,
\* Rejected, Expired or past its time of expiry, appends no event, leaves
\* the counter of event ids where it was and changes no stored approval; and
\* in each of those cases execute does fail, with that error.
C29_FailedResolve ==
    [][resolve_call'.op = "execute" /\ now' = now =>
          LET request == resolve_call'.request[1]
              known == request.approval_id
                          \in DOMAIN approval_repository._approvals
              stored == approval_repository._approvals[request.approval_id]
          IN  /\ resolve_call'.raised # None =>
                    /\ event_repository' = event_repository
                    /\ approval_repository' = approval_repository
                    /\ resolve_call'.result = None
              /\ ~known =>
                    resolve_call'.raised =
                       Some(<<"NotFoundError", "Approval", request.approval_id>>)
              /\ known /\ stored.status # "pending" =>
                    resolve_call'.raised =
                       Some(<<"InvalidStateError", "Cannot resolve approval in ",
                              stored.status, " status">>)
              /\ known /\ stored.status = "pending"
                    /\ stored.expires_at # None /\ now > stored.expires_at[1] =>
                    resolve_call'.raised =
                       Some(<<"InvalidStateError",
                              "Cannot resolve expired approval", "", "">>)
      ]_vars

\* A pending approval is past its time of expiry and execute fails for it,
\* after an event was appended for the other approval.
C29_Witness ==
    /\ resolve_call.op = "execute"
    /\ resolve_call.raised =
          Some(<<"InvalidStateError", "Cannot resolve expired approval", "", "">>)
    /\ Len(event_repository._events) = 1
    /\ event_repository._next_id = 2
    /\ approval_repository._approvals[resolve_call.request[1].approval_id].status
          = "pending"

(***************************************************************************)
(* Properties of the agent graph (under SpecAgent).                        *)
(***************************************************************************)
\* C30: a tool call reaches the tool only after the permission check
\* returned allow for that tool and those arguments: every tool call the
\* tool node has run is one the permission manager allows.
C30_GateBeforeExecution ==
    \A i \in 1..Len(executed) :
        check(manager, executed[i].name, executed[i].args) = "allow"


(***************************************************************************)
(* Properties of resolution and the requesting task (under SpecUnblock).   *)
(***************************************************************************)
\* C31: when the approval a blocked task waits for is resolved, the task is
\* unblocked: a successful resolution of approval-1 (it logs its event)
\* takes its requesting task from blocked to in_progress.
C31_ResolutionUnblocks ==
    [][(/\ event_repository' # event_repository
        /\ resolve_call'.raised = None
        /\ resolve_call'.request[1].approval_id = "approval-1"
        /\ task.status = "blocked")
       => task'.status = "in_progress"]_vars


(***************************************************************************)
(* Properties of concurrent publishing (under SpecRace).                   *)
(***************************************************************************)
\* C32: with callers publishing at once, no two events of the log have the
\* same identity, and no identity is skipped: once no caller is inside
\* publish the identities logged are 1, 2, ..., as many as there are events.
C32_AtomicIdentity ==
    /\ \A i, j \in 1..Len(Stored) : Stored[i].id = Stored[j].id => i = j
    /\ (\A caller \in Callers : publishers[caller].pc = "idle")
          => {Stored[i].id : i \in 1..Len(Stored)} = 1..Len(Stored)


(***************************************************************************)
(* Properties of concurrent resolution (under SpecResolveRace).            *)
(***************************************************************************)
\* The decision a caller asked for, as a status
Decision(caller) == IF resolvers[caller].approved THEN "approved" ELSE "rejected"

\* C33: when two callers resolve one pending approval at once and both have
\* returned, one has succeeded and the other has raised InvalidStateError,
\* the approval has the status the one that succeeded asked for, and one
\* approval.approved or approval.rejected event is logged.
C33_OneResolutionWins ==
    (/\ \A caller \in Callers : resolvers[caller].pc = "done"
     /\ \E caller \in Callers : resolvers[caller].raised = None)
    => \E winner \in Callers :
          /\ resolvers[winner].raised = None
          /\ \A other \in Callers \ {winner} :
                /\ resolvers[other].raised # None
                /\ resolvers[other].raised[1][1] = "InvalidStateError"
          /\ approval_repository._approvals[RacedApproval].status
                = Decision(winner)
          /\ Cardinality(ResolutionEvents(Stored, RacedApproval)) = 1


(***************************************************************************)
(* Properties of the pending-approval queue (under SpecThin).              *)
(***************************************************************************)
\* C34: after any calls of add_pending_approval and remove_pending_approval
\* pending_ids has no duplicates, pending_count is its length, and
\* focus_approval_id is None when pending_ids is empty and otherwise its
\* first element, the earliest approval still pending; so the focus moves
\* to the next approval when the focused one is removed.
C34_PendingQueue ==
    LET approvals == thin_state.approvals
        pending_ids == approvals.pending_ids
    IN  /\ \A i, j \in 1..Len(pending_ids) :
               pending_ids[i] = pending_ids[j] => i = j
        /\ approvals.pending_count = Len(pending_ids)
        /\ approvals.focus_approval_id = None <=> pending_ids = <<>>
        /\ pending_ids # <<>>
              => approvals.focus_approval_id = Some(pending_ids[1])

\* The focused approval was removed while two others were pending.
C34_Witness ==
    /\ thin_call.op = "remove_pending_approval"
    /\ thin_call.before.focus_approval_id = Some(thin_call.approval_id)
    /\ Len(thin_call.before.pending_ids) = 3
    /\ thin_state.approvals.pending_count = 2


(***************************************************************************)
(* Properties of check under the two names of a tool (under Spec).         *)
(***************************************************************************)
\* C35: the result of check does not depend on which of its two names the
\* tool is called by: what check answered for a name and arguments is what
\* it answers for the alias of that name and the same arguments, whatever
\* the mode and the rules.
C35_AliasInvariant ==
    call.op = "check"
        => call.result = check(manager, Alias(call.tool_name), call.args)


(***************************************************************************)
(* Properties of the Approval predicates (under SpecApproval).             *)
(***************************************************************************)
\* C36: at every time exactly one of is_pending, is_resolved and is_expired
\* is true of the approval.
C36_PredicatesPartition ==
    LET pending == is_pending(approval)
        resolved == is_resolved(approval)
        expired == is_expired(approval, now)
    IN  /\ pending \/ resolved \/ expired
        /\ ~(pending /\ resolved)
        /\ ~(pending /\ expired)
        /\ ~(resolved /\ expired)


(***************************************************************************)
(* Properties of delivery to handlers (under SpecDeliver).                 *)
(***************************************************************************)
\* C37: every handler receives events in increasing identity order: a
\* handler is never called with an event after it was called with an event
\* of a greater id, also when handlers publish during delivery.  (That a
\* handler is not called twice with one event is C38's.)
C37_OrderedDelivery ==
    \A i, j \in 1..Len(delivered) :
        (i < j /\ delivered[i].handler = delivered[j].handler)
            => delivered[i].event_id <= delivered[j].event_id

\* The calls of a handler with an event
Deliveries(handler, event_id) ==
    {i \in 1..Len(delivered) :
        /\ delivered[i].handler = handler
        /\ delivered[i].event_id = event_id}

\* C38: once every publish has returned, each handler that was subscribed,
\* to the event's type or globally, when publish was called has been called
\* with that event exactly once, also when handlers subscribed and
\* unsubscribed during delivery.
C38_ExactlyOnce ==
    stack = <<>>
        => \A i \in 1..Len(publications) :
              \A handler \in publications[i].subscribed :
                  Cardinality(Deliveries(handler,
                                         publications[i].event.id)) = 1


(***************************************************************************)
(* Properties of cursor paging (under SpecPage).                           *)
(***************************************************************************)
\* The ids of the events of the reader's run that are in the log
RunEventIds ==
    {Stored[i].id : i \in {j \in 1..Len(Stored) : Stored[j].run_id = ReaderRun}}

\* C39: the reader receives the events of its run once each and in
\* ascending identity order, and events of no other run; and when a
\* response says has_more = false and nothing was published since, it has
\* received every event of its run.
C39_CursorPaging ==
    /\ \A i, j \in 1..Len(reader.received) :
          i < j => reader.received[i] < reader.received[j]
    /\ \A i \in 1..Len(reader.received) : reader.received[i] \in RunEventIds
    /\ (/\ reader.polls > 0
        /\ ~reader.has_more
        /\ reader.logged = Len(Stored))
          => {reader.received[i] : i \in 1..Len(reader.received)} = RunEventIds


(***************************************************************************)
(* Properties of the Task's error message (under SpecTask).                *)
(***************************************************************************)
\* C40: a task made by Task.create and driven by assign, block, unblock,
\* complete and fail carries an error message only while it is blocked or
\* failed: a pending, in_progress or completed task has none (unblock clears
\* the block reason); a blocked task carries the reason it was blocked
\* with, if one was given; a failed task carries the message given to fail.
C40_ErrorMessageOnlyWhenStuck ==
    /\ task.status \in {"pending", "in_progress", "completed"}
          => task.error_message = None
    /\ task.status = "blocked"
          => \/ task.error_message = None
             \/ task.error_message[1] \in Reasons \ {""}
    /\ task.status = "failed"
          => /\ task.error_message # None
             /\ task.error_message[1] \in ErrorMessages

\* C40's case: a task blocked with a reason has been unblocked.
C40_Witness ==
    /\ task_call.op = "unblock"
    /\ task_call.raised = None
    /\ task_call.before.error_message = Some("needs approval")
    /\ task.status = "in_progress"
    /\ task.error_message = None

====
